---- MODULE Spec2Model ----
(***************************************************************************)
(* Scoring and admission evaluation of the UFRGS vestibular scripts:       *)
(*   src/vestibular-ufrgs-llm/src/calcular_media_harmonica_cursos.py       *)
(*   src/vestibular-ufrgs-llm/src/calcular_ac_ufrgs.py                     *)
(*   src/vestibular-ufrgs-llm/src/verificar_aprovacao.py                   *)
(* and of the question pipeline:                                           *)
(*   src/vestibular-ufrgs-llm/parser/pdf_parser.py                         *)
(*   src/vestibular-ufrgs-llm/src/llm_client.py                            *)
(*   src/vestibular-ufrgs-llm/LLMApiaAproach/pipeline.py                   *)
(*                                                                         *)
(* Python numbers are modelled as exact rationals <<n, d>> with d > 0 in   *)
(* lowest terms, so that equal values have equal representations.  The     *)
(* rounding of IEEE doubles is not modelled.  A division by zero yields    *)
(* the distinguished value ZeroDivisionError, which every operation        *)
(* propagates.                                                             *)
(***************************************************************************)
EXTENDS Integers, Sequences, FiniteSets, TLC

VARIABLES
    pc,             \* which function group is exercised and how far it got
    eps,            \* StandardizedScoreSet: subject name -> score (partial)
    pesos,          \* one program's weight table, in dict iteration order
    mh,             \* result of calcular_media_harmonica_ponderada
    ac,             \* AC of calcular_ac_para_curso's aggregation loop
    fator,          \* factor the weights were last multiplied by (0: never)
    mh_antes,       \* mh before the weights were multiplied
    estatisticas,   \* SubjectStatistics: statistics key -> record (partial)
    materia,        \* the subject being standardized
    acertos,        \* its raw correct count
    ep,             \* result of obter_ep_por_acertos
    ep_ac,          \* the standardized score calcular_ac_para_curso computes
    acertos_antes,  \* the smaller raw count standardized before (-1: none)
    ep_antes,       \* ep of acertos_antes
    ep_ac_antes,    \* ep_ac of acertos_antes
    info,           \* ExamStructure: the two days' distribuicao lists
    mapeamento,     \* result of mapear_questoes_por_materia, or its exception
    results_llm,    \* the CandidateAnswerSet being evaluated
    acertos_mh,     \* tallies of contar_acertos_por_materia (cursos script)
    acertos_ac,     \* tallies of contar_acertos_por_materia (AC script)
    nota_redacao,   \* the essay grade, 0 to 10
    total_questoes, \* subject -> number of questions (AC script)
    escores_ac,     \* escores_padronizados of calcular_ac_para_curso
    catalogo,       \* pesos_cursos.keys(): the short names, in dict order
    mh_cursos,      \* llm_resultados[llm_nome]: short name -> score
    notas_corte,    \* the cutoff table: pairs (full name, cutoff) in dict order
    aprovados,      \* the admitted programs, as listed
    reprovados,     \* the rejected programs, as listed
    sem_nota_corte, \* the programs without a cutoff
    taxa_aprovacao, \* the rate of the statistics block
    aprovados_count, \* the admitted counter of the final summary
    total_count,    \* the with-cutoff counter of the final summary
    taxa,           \* the rate of the final summary
    nome_curso,     \* the short name handed to mapear_curso_nota_corte
    resolvido,      \* the pair mapear_curso_nota_corte returned
    results,        \* Results.json: candidate -> CandidateAnswerSet
    pesos_cursos,   \* the weights file: short name -> weight table
    llm_eps,        \* candidate -> eps, once computed
    quadros,        \* the local variables of the running aggregator calls
    llm_resultados, \* <<candidate, short name>> -> score, once returned
    veredictos,     \* <<candidate, short name>> -> the list it was put in
    pages_data,     \* the pages of the test PDF: text and image count
    pagina,         \* the page the first pass of the parser is at
    current_day,    \* current_day of parse_questions_with_pages
    question_sequence, \* the questions the first pass collected
    questions,      \* the questions: the items of a dict in insertion order,
                    \* or the elements of a list
    questions_type, \* "dict", "list" or "tuple": what isinstance finds
    pdf_path,       \* the first argument of process_test
    pdf,            \* the file at pdf_path
    output_json_path, \* the second argument of process_test, if given
    provider,       \* the provider argument
    api_key,        \* the api_key argument
    model,          \* the model argument
    env,            \* the API key variables set in the environment
    llm_client,     \* the LLMClient once constructed
    idx,            \* position of the loop of answer_multiple_questions
    answers,        \* its answers dict, in insertion order
    chamadas,       \* the provider calls made so far, with their outcomes
    output,         \* the output structure of process_test
    arquivo,        \* what was written to output_json_path
    result          \* what process_test returned or raised

aggVars == <<eps, pesos, mh, ac, fator, mh_antes>>

stdVars == <<estatisticas, materia, acertos, ep, ep_ac,
             acertos_antes, ep_antes, ep_ac_antes>>

cntVars == <<info, mapeamento, results_llm, acertos_mh, acertos_ac>>

epsVars == <<nota_redacao, total_questoes, escores_ac>>

\* the variables of the specifications that follow the first three
admVars == <<catalogo, mh_cursos, aprovados, reprovados, sem_nota_corte,
             taxa_aprovacao, aprovados_count, total_count, taxa>>

resVars == <<nome_curso, resolvido>>

parVars == <<results, pesos_cursos, llm_eps, quadros, llm_resultados, veredictos>>

\* the variables of the answer pipeline: parser, LLM client, process_test
parseVars == <<pages_data, pagina, current_day, question_sequence>>

answerVars == <<questions, questions_type, pdf_path, pdf, output_json_path,
                provider, api_key, model, env, llm_client, idx, answers,
                chamadas, output, arquivo, result>>

llmVars == <<parseVars, answerVars>>

laterVars == <<epsVars, admVars, notas_corte, resVars, parVars, llmVars>>

vars == <<pc, aggVars, stdVars, cntVars, laterVars>>

----------------------------------------------------------------------------
(* Exact rational arithmetic *)

Abs(n) == IF n < 0 THEN -n ELSE n

RECURSIVE Gcd(_, _)
Gcd(a, b) == IF b = 0 THEN a ELSE Gcd(b, a % b)

ZeroDivisionError == <<0, 0>>

IsNumber(x) == x[2] # 0

Norm(n, d) ==
    IF d = 0 THEN ZeroDivisionError
    ELSE LET g == Gcd(Abs(n), Abs(d))
             s == IF d < 0 THEN -1 ELSE 1
         IN  <<(s * n) \div g, (s * d) \div g>>

R(n) == <<n, 1>>

RAdd(a, b) ==
    IF ~IsNumber(a) \/ ~IsNumber(b) THEN ZeroDivisionError
    ELSE Norm(a[1] * b[2] + b[1] * a[2], a[2] * b[2])

RSub(a, b) ==
    IF ~IsNumber(a) \/ ~IsNumber(b) THEN ZeroDivisionError
    ELSE Norm(a[1] * b[2] - b[1] * a[2], a[2] * b[2])

RMul(a, b) ==
    IF ~IsNumber(a) \/ ~IsNumber(b) THEN ZeroDivisionError
    ELSE Norm(a[1] * b[1], a[2] * b[2])

RDiv(a, b) ==
    IF ~IsNumber(a) \/ ~IsNumber(b) THEN ZeroDivisionError
    ELSE Norm(a[1] * b[2], a[2] * b[1])

RLt(a, b) == a[1] * b[2] < b[1] * a[2]

RLe(a, b) == a[1] * b[2] <= b[1] * a[2]

RPos(a) == a[1] > 0

Zero == R(0)

----------------------------------------------------------------------------
(* dict helpers: a dict with string keys is a function on its key set; a    *)
(* dict whose iteration order matters is a sequence of <<key, value>>.      *)

Get(d, k, default) == IF k \in DOMAIN d THEN d[k] ELSE default

Keys(items) == {items[i][1] : i \in 1..Len(items)}

----------------------------------------------------------------------------
(* ProgramAggregator: calcular_media_harmonica_ponderada                    *)

\* the default of eps.get(materia, 500): the scale's mean
EP_MEDIO == 500

NotComputed == <<1, 0>>

\* faulty variant: the POR weight looked up under the raw language score
mapeamento_abrev_por_bruto ==
    [abrev \in {"POR", "LIT", "GEO", "HIS", "BIO", "FIS", "QUI", "MAT", "LIN"} |->
        CASE abrev = "POR" -> "portugues"
          [] abrev = "LIT" -> "literatura"
          [] abrev = "GEO" -> "geografia"
          [] abrev = "HIS" -> "historia"
          [] abrev = "BIO" -> "biologia"
          [] abrev = "FIS" -> "fisica"
          [] abrev = "QUI" -> "quimica"
          [] abrev = "MAT" -> "matematica"
          [] abrev = "LIN" -> "lingua_estrangeira"]

mapeamento_abrev ==
    [abrev \in {"POR", "LIT", "GEO", "HIS", "BIO", "FIS", "QUI", "MAT", "LIN"} |->
        CASE abrev = "POR" -> "portugues_redacao"
          [] abrev = "LIT" -> "literatura"
          [] abrev = "GEO" -> "geografia"
          [] abrev = "HIS" -> "historia"
          [] abrev = "BIO" -> "biologia"
          [] abrev = "FIS" -> "fisica"
          [] abrev = "QUI" -> "quimica"
          [] abrev = "MAT" -> "matematica"
          [] abrev = "LIN" -> "lingua_estrangeira"]

\* materia = mapeamento_abrev.get(abrev); "" stands for None
materia_de(abrev) ==
    IF abrev \in DOMAIN mapeamento_abrev THEN mapeamento_abrev[abrev] ELSE ""

\* faulty variant: a missing score defaults to 0
ep_da_materia_default_zero(eps_, materia_) == Get(eps_, materia_, Zero)

\* ep = eps.get(materia, 500)
ep_da_materia(eps_, materia_) == Get(eps_, materia_, R(EP_MEDIO))

\* faulty variant: the guard written `ep >= 0`
ep_nao_negativo(ep_) == ep_[1] >= 0

\* the guard `if ep > 0` of both aggregation loops
ep_positivo(ep_) == RPos(ep_)

\* soma_pesos += peso
acumular_peso(soma_pesos, peso) == RAdd(soma_pesos, peso)

\* faulty variant: the weight left out of the inverse term
acumular_inverso_sem_peso(soma_inversos, peso, ep_) ==
    RAdd(soma_inversos, RDiv(R(1), ep_))

\* soma_inversos += peso / ep
acumular_inverso(soma_inversos, peso, ep_) == RAdd(soma_inversos, RDiv(peso, ep_))

\* the loop of lines 179-192 from the i-th weight on, then lines 194-196
RECURSIVE media_harmonica_loop(_, _, _, _, _)
media_harmonica_loop(eps_, pesos_, i, soma_pesos, soma_inversos) ==
    IF i > Len(pesos_)
    THEN IF RPos(soma_inversos) THEN RDiv(soma_pesos, soma_inversos) ELSE Zero
    ELSE LET abrev == pesos_[i][1]
             peso == R(pesos_[i][2])
         IN  IF abrev = "total"
             THEN media_harmonica_loop(eps_, pesos_, i + 1, soma_pesos, soma_inversos)
             ELSE IF materia_de(abrev) = ""
             THEN media_harmonica_loop(eps_, pesos_, i + 1, soma_pesos, soma_inversos)
             ELSE LET ep_ == ep_da_materia(eps_, materia_de(abrev))
                  IN  IF ep_positivo(ep_)
                      THEN LET inversos == acumular_inverso(soma_inversos, peso, ep_)
                           IN  IF ~IsNumber(inversos)
                               THEN ZeroDivisionError  \* the exception propagates
                               ELSE media_harmonica_loop(eps_, pesos_, i + 1,
                                        acumular_peso(soma_pesos, peso), inversos)
                      ELSE Zero

calcular_media_harmonica_ponderada(eps_, pesos_) ==
    media_harmonica_loop(eps_, pesos_, 1, Zero, Zero)

(* calcular_ac_para_curso, lines 169-182: the aggregation loop of the AC    *)
(* script over the scores it has standardized.  The weight key itself is    *)
(* the lookup key, and a non-positive score is skipped.                     *)
RECURSIVE ac_loop(_, _, _, _, _)
ac_loop(escores_padronizados, pesos_curso, i, soma_pesos, soma_inversos) ==
    IF i > Len(pesos_curso)
    THEN IF RPos(soma_inversos) THEN RDiv(soma_pesos, soma_inversos) ELSE Zero
    ELSE LET materia_peso == pesos_curso[i][1]
             peso == R(pesos_curso[i][2])
         IN  IF materia_peso = "total"
             THEN ac_loop(escores_padronizados, pesos_curso, i + 1,
                          soma_pesos, soma_inversos)
             ELSE LET ep_ == ep_da_materia(escores_padronizados, materia_peso)
                  IN  IF ep_positivo(ep_)
                      THEN LET inversos == acumular_inverso(soma_inversos, peso, ep_)
                           IN  IF ~IsNumber(inversos)
                               THEN ZeroDivisionError  \* the exception propagates
                               ELSE ac_loop(escores_padronizados, pesos_curso, i + 1,
                                        acumular_peso(soma_pesos, peso), inversos)
                      ELSE ac_loop(escores_padronizados, pesos_curso, i + 1,
                               soma_pesos, soma_inversos)

ac_media_harmonica(escores_padronizados, pesos_curso) ==
    ac_loop(escores_padronizados, pesos_curso, 1, Zero, Zero)

----------------------------------------------------------------------------
(* ScoreStandardizer: obter_ep_por_acertos and calcular_escore_padronizado  *)

\* the scale of the standardized score: 100 per standard deviation
EP_ESCALA == 100

\* materia_lookup: lingua_estrangeira is looked up under ingles
materia_lookup(materia_) ==
    IF materia_ = "lingua_estrangeira" THEN "ingles" ELSE materia_

\* faulty variant: the first entry returned without comparing its acertos
buscar_escore_sem_comparar(escores, acertos_) == IF Len(escores) > 0 THEN 1 ELSE 0

\* lines 107-109: the index of the first entry with item['acertos'] ==
\* acertos, 0 when the loop ends without one
buscar_escore(escores, acertos_) ==
    IF \E i \in 1..Len(escores) : escores[i].acertos = acertos_
    THEN CHOOSE i \in 1..Len(escores) :
            /\ escores[i].acertos = acertos_
            /\ \A j \in 1..(i - 1) : escores[j].acertos # acertos_
    ELSE 0

\* faulty variant: the deviation subtracted the wrong way round
ep_pela_formula_invertida(acertos_, media, desvio) ==
    RAdd(RMul(RDiv(RSub(media, R(acertos_)), desvio), R(EP_ESCALA)), R(EP_MEDIO))

\* lines 114-116
ep_pela_formula(acertos_, media, desvio) ==
    IF RPos(desvio)
    THEN RAdd(RMul(RDiv(RSub(R(acertos_), media), desvio), R(EP_ESCALA)),
              R(EP_MEDIO))
    ELSE R(EP_MEDIO)

obter_ep_por_acertos(estatisticas_, materia_, acertos_) ==
    LET materia_stats == Get(estatisticas_, materia_lookup(materia_), <<>>)
        escores == Get(materia_stats, "escores", <<>>)
        i == buscar_escore(escores, acertos_)
    IN  IF i # 0 THEN escores[i].ep
        ELSE ep_pela_formula(acertos_,
                             Get(materia_stats, "media", R(0)),
                             Get(materia_stats, "desvio_padrao", R(1)))

\* faulty variant: the guard against a zero standard deviation left out
calcular_escore_padronizado_sem_guarda(escore_bruto, media, desvio_padrao) ==
    RAdd(RMul(RDiv(RSub(escore_bruto, media), desvio_padrao), R(EP_ESCALA)),
         R(EP_MEDIO))

\* calcular_ac_ufrgs.py
calcular_escore_padronizado(escore_bruto, media, desvio_padrao) ==
    IF desvio_padrao = Zero THEN R(EP_MEDIO)
    ELSE RAdd(RMul(RDiv(RSub(escore_bruto, media), desvio_padrao), R(EP_ESCALA)),
              R(EP_MEDIO))

\* calcular_ac_para_curso, lines 141-155: one subject's standardized score
ac_escore_padronizado(estatisticas_, materia_, acertos_) ==
    LET materia_stat == IF materia_ = "lingua_estrangeira" THEN "ingles"
                        ELSE materia_
        stats == Get(estatisticas_, materia_stat, <<>>)
    IN  calcular_escore_padronizado(R(acertos_),
                                    Get(stats, "media", R(0)),
                                    Get(stats, "desvio_padrao", R(1)))

----------------------------------------------------------------------------
(* SubjectMap: mapear_questoes_por_materia (the same text in both scripts)  *)
(* A str is a sequence of one-character strings where its characters are    *)
(* inspected (the question ranges); subject names are TLA+ strings.         *)

Materias == {"portugues", "literatura", "matematica", "geografia", "historia",
             "fisica", "quimica", "biologia", "lingua_estrangeira"}

Digitos == {"0", "1", "2", "3", "4", "5", "6", "7", "8", "9"}

Digito(c) ==
    CASE c = "0" -> 0 [] c = "1" -> 1 [] c = "2" -> 2 [] c = "3" -> 3
      [] c = "4" -> 4 [] c = "5" -> 5 [] c = "6" -> 6 [] c = "7" -> 7
      [] c = "8" -> 8 [] c = "9" -> 9

\* str.split('-')
RECURSIVE split_hifen(_)
split_hifen(str) ==
    IF \E i \in 1..Len(str) : str[i] = "-"
    THEN LET i == CHOOSE x \in 1..Len(str) :
                     str[x] = "-" /\ \A y \in 1..(x - 1) : str[y] # "-"
         IN  <<SubSeq(str, 1, i - 1)>> \o split_hifen(SubSeq(str, i + 1, Len(str)))
    ELSE <<str>>

RECURSIVE valor_decimal(_)
valor_decimal(str) ==
    IF Len(str) = 0 THEN 0
    ELSE 10 * valor_decimal(SubSeq(str, 1, Len(str) - 1)) + Digito(str[Len(str)])

\* int(str) of an unsigned decimal; -1 stands for ValueError
int_de(str) ==
    IF Len(str) = 0 \/ \E i \in 1..Len(str) : str[i] \notin Digitos
    THEN -1
    ELSE valor_decimal(str)

\* inicio, fim = map(int, questoes_range.split('-')); <<>> stands for ValueError
inicio_fim(questoes_range) ==
    LET partes == split_hifen(questoes_range)
    IN  IF Len(partes) # 2 THEN <<>>
        ELSE IF int_de(partes[1]) = -1 \/ int_de(partes[2]) = -1 THEN <<>>
        ELSE <<int_de(partes[1]), int_de(partes[2])>>

\* list(range(inicio, fim + 1))
lista_range(inicio, fim) ==
    [i \in 1..(IF fim >= inicio THEN fim - inicio + 1 ELSE 0) |-> inicio + i - 1]

\* str.lower() on the subject names of the exam structure
lower(nome) ==
    CASE nome = "Lingua Portuguesa" -> "lingua portuguesa"
      [] nome = "Literatura" -> "literatura"
      [] nome = "Matematica" -> "matematica"
      [] nome = "Ingles" -> "ingles"
      [] nome = "Espanhol" -> "espanhol"
      [] OTHER -> nome

\* str.replace(' ', '_')
replace_espaco(nome) ==
    CASE nome = "lingua portuguesa" -> "lingua_portuguesa"
      [] OTHER -> nome

\* the key a day-1 item is filed under (lines 40, 45-48)
chave_dia1(item) ==
    LET materia_ == replace_espaco(lower(item.materia))
    IN  IF materia_ = "lingua_portuguesa" THEN "portugues" ELSE materia_

\* faulty variant: the tracks filed under the first-day language subject
chave_dia2_em_portugues(item) ==
    LET materia_ == lower(item.materia)
    IN  IF materia_ \in {"ingles", "espanhol"} THEN "portugues"
        ELSE materia_

\* the key a day-2 item is filed under (lines 54, 59-62)
chave_dia2(item) ==
    LET materia_ == lower(item.materia)
    IN  IF materia_ \in {"ingles", "espanhol"} THEN "lingua_estrangeira"
        ELSE materia_

\* mapeamento[chave].extend(questoes), or the exception raised on the way
estender(resultado, chave, questoes_range) ==
    IF resultado.erro # "" THEN resultado
    ELSE IF inicio_fim(questoes_range) = <<>>
    THEN [erro |-> "ValueError", mapa |-> resultado.mapa]
    ELSE IF chave \notin DOMAIN resultado.mapa
    THEN [erro |-> "KeyError", mapa |-> resultado.mapa]
    ELSE [erro |-> "",
          mapa |-> [resultado.mapa EXCEPT ![chave] =
                       @ \o lista_range(inicio_fim(questoes_range)[1],
                                        inicio_fim(questoes_range)[2])]]

RECURSIVE mapear_dia1(_, _, _)
mapear_dia1(resultado, distribuicao, i) ==
    IF i > Len(distribuicao) THEN resultado
    ELSE mapear_dia1(estender(resultado, chave_dia1(distribuicao[i]),
                              distribuicao[i].questoes),
                     distribuicao, i + 1)

RECURSIVE mapear_dia2(_, _, _)
mapear_dia2(resultado, distribuicao, i) ==
    IF i > Len(distribuicao) THEN resultado
    ELSE mapear_dia2(estender(resultado, chave_dia2(distribuicao[i]),
                              distribuicao[i].questoes),
                     distribuicao, i + 1)

mapear_questoes_por_materia(info_) ==
    mapear_dia2(mapear_dia1([erro |-> "", mapa |-> [m \in Materias |-> <<>>]],
                            info_.dia_1, 1),
                info_.dia_2, 1)

----------------------------------------------------------------------------
(* SubjectScorer: contar_acertos_por_materia, in its two versions           *)

\* the last question number of the first day
DIA1_MAX == 60

\* iguais_p1 / iguais_p2: results_llm.get(prova, {}).get('iguais', [])
iguais(results_llm_, prova) ==
    Get(Get(results_llm_, prova, <<>>), "iguais", <<>>)

\* q in lista
Contem(lista, q) == \E i \in 1..Len(lista) : lista[i] = q

\* faulty variant: the first day taken to run up to question 90
no_dia_1_ate_90(q) == q <= 90

\* cursos script, line 84: if q <= 60
no_dia_1(q) == q <= DIA1_MAX

\* AC script, line 104: any(1 <= num <= 60 for num in questoes if num == q)
no_dia_1_ac(questoes, q) ==
    \E i \in 1..Len(questoes) :
        questoes[i] = q /\ 1 <= questoes[i] /\ questoes[i] <= DIA1_MAX

\* cursos script: one increment per list position whose question matches
contar_acertos_por_materia(results_llm_, mapeamento_questoes) ==
    [materia_ \in DOMAIN mapeamento_questoes |->
        Cardinality({i \in 1..Len(mapeamento_questoes[materia_]) :
            LET q == mapeamento_questoes[materia_][i]
            IN  IF no_dia_1(q)
                THEN Contem(iguais(results_llm_, "PRIMEIRA_PROVA"), q)
                ELSE Contem(iguais(results_llm_, "SEGUNDA_PROVA"), q)})]

\* AC script
contar_acertos_por_materia_ac(results_llm_, mapeamento_questoes) ==
    [materia_ \in DOMAIN mapeamento_questoes |->
        Cardinality({i \in 1..Len(mapeamento_questoes[materia_]) :
            LET q == mapeamento_questoes[materia_][i]
            IN  IF no_dia_1_ac(mapeamento_questoes[materia_], q)
                THEN Contem(iguais(results_llm_, "PRIMEIRA_PROVA"), q)
                ELSE Contem(iguais(results_llm_, "SEGUNDA_PROVA"), q)})]

\* calcular_ep_redacao
\* faulty variant: the essay standardized around a mean of 5
calcular_ep_redacao_media_5(nota_redacao_) ==
    RAdd(RMul(RDiv(RSub(nota_redacao_, R(5)), R(2)), R(EP_ESCALA)), R(EP_MEDIO))

calcular_ep_redacao(nota_redacao_) ==
    RAdd(RMul(RDiv(RSub(nota_redacao_, R(6)), R(2)), R(EP_ESCALA)), R(EP_MEDIO))

\* the essay grade main passes: 9.98
nota_redacao_main == <<499, 50>>

calcular_eps_por_materia(acertos_, estatisticas_, nota_redacao_) ==
    LET eps_ == [materia_ \in DOMAIN acertos_ |->
                    obter_ep_por_acertos(estatisticas_, materia_, acertos_[materia_])]
        ep_redacao == calcular_ep_redacao(nota_redacao_)
    IN  [m \in DOMAIN eps_ \cup {"portugues_redacao"} |->
            IF m = "portugues_redacao"
            THEN IF "portugues" \in DOMAIN eps_
                 THEN RDiv(RAdd(eps_["portugues"], ep_redacao), R(2))
                 ELSE ep_redacao
            ELSE eps_[m]]

\* calcular_ac_para_curso, lines 131-167: escores_padronizados.  A subject
\* without questions gets no score; the essay goes through
\* calcular_escore_padronizado with mean 6.0 and deviation 2.0
ac_escores_padronizados(acertos_por_materia, total_questoes_por_materia, estatisticas_, nota_redacao_) ==
    LET escores_padronizados ==
            [materia_ \in {m \in DOMAIN acertos_por_materia :
                              total_questoes_por_materia[m] # 0} |->
                ac_escore_padronizado(estatisticas_, materia_,
                                      acertos_por_materia[materia_])]
        ep_redacao == calcular_escore_padronizado(nota_redacao_, R(6), R(2))
    IN  [m \in DOMAIN escores_padronizados \cup {"portugues_redacao"} |->
            IF m = "portugues_redacao"
            THEN IF "portugues" \in DOMAIN escores_padronizados
                 THEN RDiv(RAdd(escores_padronizados["portugues"], ep_redacao), R(2))
                 ELSE ep_redacao
            ELSE escores_padronizados[m]]

----------------------------------------------------------------------------
(* CutoffResolver: mapear_curso_nota_corte of verificar_aprovacao.py        *)
(* A program name is a sequence of one-character strings; a character       *)
(* outside ASCII is the string "U+" followed by its code point.             *)

\* Python's None
None == <<"None">>

\* mapeamento_especial, lines 36-126, in the order of the dict literal: pairs
\* of short name and pattern (None where no cutoff is published)
mapeamento_especial == <<
    <<
        <<"A", "d", "m", "i", "n", "i", "s", "t", "r", "a", "U+00E7",
          "U+00E3", "o", " ", "(", "D", ")">>,
        <<"A", "d", "m", "i", "n", "i", "s", "t", "r", "a", "U+00E7",
          "U+00E3", "o", " ", "(", "I", "n", "t", "e", "g", "r", "a", "l">>
    >>,
    <<
        <<"A", "d", "m", "i", "n", "i", "s", "t", "r", "a", "U+00E7",
          "U+00E3", "o", " ", "(", "N", ")">>,
        <<"A", "d", "m", "i", "n", "i", "s", "t", "r", "a", "U+00E7",
          "U+00E3", "o", " ", "(", "N", "o", "t", "u", "r", "n", "o">>
    >>,
    <<
        <<"A", "d", "m", "i", "n", "i", "s", "t", "r", "a", "U+00E7",
          "U+00E3", "o", " ", "P", "U+00FA", "b", "/", "S", "o", "c", " ",
          "(", "N", ")">>,
        <<"A", "d", "m", "i", "n", "i", "s", "t", "r", "a", "U+00E7",
          "U+00E3", "o", " ", "P", "U+00FA", "b", "l", "i", "c", "a", " ",
          "e", " ", "S", "o", "c", "i", "a", "l">>
    >>,
    <<
        <<"A", "g", "r", "o", "n", "o", "m", "i", "a">>,
        <<"A", "g", "r", "o", "n", "o", "m", "i", "a", " ", "(", "I", "n",
          "t", "e", "g", "r", "a", "l", ")">>
    >>,
    <<
        <<"A", "r", "q", "u", "i", "t", "e", "t", "u", "r", "a", " ", "e",
          " ", "U", "r", "b", "a", "n", "i", "s", "m", "o">>,
        <<"A", "r", "q", "u", "i", "t", "e", "t", "u", "r", "a", " ", "e",
          " ", "U", "r", "b", "a", "n", "i", "s", "m", "o">>
    >>,
    <<
        <<"A", "r", "q", "u", "i", "v", "o", "l", "o", "g", "i", "a", " ",
          "(", "N", ")">>,
        <<"A", "r", "q", "u", "i", "v", "o", "l", "o", "g", "i", "a">>
    >>,
    <<
        <<"A", "r", "t", "e", "s", " ", "V", "i", "s", "u", "a", "i", "s",
          " ", "(", "B", ")">>,
        <<"A", "r", "t", "e", "s", " ", "V", "i", "s", "u", "a", "i", "s",
          " ", "(", "B", "a", "c", "h", "a", "r", "e", "l", "a", "d", "o">>
    >>,
    <<
        <<"A", "r", "t", "e", "s", " ", "V", "i", "s", "u", "a", "i", "s",
          " ", "(", "L", ")">>,
        <<"A", "r", "t", "e", "s", " ", "V", "i", "s", "u", "a", "i", "s",
          " ", "(", "L", "i", "c", "e", "n", "c", "i", "a", "t", "u", "r", "a">>
    >>,
    <<
        <<"B", "i", "b", "l", "i", "o", "t", "e", "c", "o", "n", "o", "m",
          "i", "a">>,
        <<"B", "i", "b", "l", "i", "o", "t", "e", "c", "o", "n", "o", "m",
          "i", "a">>
    >>,
    <<
        <<"B", "i", "o", "m", "e", "d", "i", "c", "i", "n", "a">>,
        <<"B", "i", "o", "m", "e", "d", "i", "c", "i", "n", "a">>
    >>,
    <<
        <<"B", "i", "o", "t", "e", "c", "n", "o", "l", "o", "g", "i", "a">>,
        <<"B", "i", "o", "t", "e", "c", "n", "o", "l", "o", "g", "i", "a">>
    >>,
    <<
        <<"C", "i", "U+00EA", "n", "c", "i", "a", "s", " ", "A", "t", "u",
          "a", "r", "i", "a", "i", "s">>,
        <<"C", "i", "U+00EA", "n", "c", "i", "a", "s", " ", "A", "t", "u",
          "a", "r", "i", "a", "i", "s">>
    >>,
    <<
        <<"C", "i", "U+00EA", "n", "c", "i", "a", "s", " ", "B", " ", "B",
          "i", "o", " ", "M", "a", "r", " ", "C", "L", "N">>,
        <<"C", "i", "U+00EA", "n", "c", "i", "a", "s", " ", "B", "i", "o",
          "l", "U+00F3", "g", "i", "c", "a", "s", " ", "(", "B", "a", "c",
          "h", "a", "r", "e", "l", "a", "d", "o", ",", " ", "P", "U+00F3",
          "l", "o", " ", "I", "m", "b", "U+00E9", ")">>
    >>,
    <<
        <<"C", "i", "U+00EA", "n", "c", "i", "a", "s", " ", "B", "i", "o",
          "l", "U+00F3", "g", "i", "c", "a", "s", " ", "(", "B", ")">>,
        <<"C", "i", "U+00EA", "n", "c", "i", "a", "s", " ", "B", "i", "o",
          "l", "U+00F3", "g", "i", "c", "a", "s", " ", "(", "B", "a", "c",
          "h", "a", "r", "e", "l", "a", "d", "o", ",", " ", "C", "a", "m",
          "p", "u", "s", " ", "d", "o", " ", "V", "a", "l", "e", ")">>
    >>,
    <<
        <<"C", "i", "U+00EA", "n", "c", "i", "a", "s", " ", "B", "i", "o",
          "l", "U+00F3", "g", "i", "c", "a", "s", " ", "(", "L", ")">>,
        <<"C", "i", "U+00EA", "n", "c", "i", "a", "s", " ", "B", "i", "o",
          "l", "U+00F3", "g", "i", "c", "a", "s", " ", "(", "L", "i", "c",
          "e", "n", "c", "i", "a", "t", "u", "r", "a">>
    >>,
    <<
        <<"C", "i", "U+00EA", "n", "c", "i", "a", "s", " ", "C", "o", "n",
          "t", "U+00E1", "b", "e", "i", "s">>,
        <<"C", "i", "U+00EA", "n", "c", "i", "a", "s", " ", "C", "o", "n",
          "t", "U+00E1", "b", "e", "i", "s">>
    >>,
    <<
        <<"C", "i", "U+00EA", "n", "c", "i", "a", "s", " ", "E", "c", "o",
          "n", "U+00F4", "m", "i", "c", "a", "s", " ", "(", "D", ")">>,
        <<"C", "i", "U+00EA", "n", "c", "i", "a", "s", " ", "E", "c", "o",
          "n", "U+00F4", "m", "i", "c", "a", "s", " ", "(", "I", "n", "t",
          "e", "g", "r", "a", "l">>
    >>,
    <<
        <<"C", "i", "U+00EA", "n", "c", "i", "a", "s", " ", "E", "c", "o",
          "n", "U+00F4", "m", "i", "c", "a", "s", " ", "(", "N", ")">>,
        <<"C", "i", "U+00EA", "n", "c", "i", "a", "s", " ", "E", "c", "o",
          "n", "U+00F4", "m", "i", "c", "a", "s", " ", "(", "N", "o", "t",
          "u", "r", "n", "o">>
    >>,
    <<
        <<"C", "i", "U+00EA", "n", "c", "i", "a", "s", " ", "S", "o", "c",
          "i", "a", "i", "s", " ", "(", "D", ")">>,
        <<"C", "i", "U+00EA", "n", "c", "i", "a", "s", " ", "S", "o", "c",
          "i", "a", "i", "s", " ", "(", "I", "n", "t", "e", "g", "r", "a",
          "l", ",", " ", "C", "a", "m", "p", "u", "s", " ", "d", "o", " ",
          "V", "a", "l", "e", ")">>
    >>,
    <<
        <<"C", "i", "U+00EA", "n", "c", "i", "a", "s", " ", "S", "o", "c",
          "i", "a", "i", "s", " ", "(", "N", ")">>,
        <<"C", "i", "U+00EA", "n", "c", "i", "a", "s", " ", "S", "o", "c",
          "i", "a", "i", "s", " ", "(", "N", "o", "t", "u", "r", "n", "o",
          ",", " ", "C", "a", "m", "p", "u", "s", " ", "d", "o", " ", "V",
          "a", "l", "e", ")">>
    >>,
    <<
        <<"C", "o", "m", "p", "u", "t", "a", "U+00E7", "U+00E3", "o">>,
        <<"C", "i", "U+00EA", "n", "c", "i", "a", " ", "d", "a", " ", "C",
          "o", "m", "p", "u", "t", "a", "U+00E7", "U+00E3", "o">>
    >>,
    <<
        <<"D", "a", "n", "U+00E7", "a">>,
        <<"D", "a", "n", "U+00E7", "a">>
    >>,
    <<
        <<"D", "e", "s", "i", "g", "n", " ", "P", "r", "o", "d", "u", "t", "o">>,
        <<"D", "e", "s", "i", "g", "n", " ", "d", "e", " ", "P", "r", "o",
          "d", "u", "t", "o">>
    >>,
    <<
        <<"D", "e", "s", "i", "g", "n", " ", "V", "i", "s", "u", "a", "l">>,
        <<"D", "e", "s", "i", "g", "n", " ", "V", "i", "s", "u", "a", "l">>
    >>,
    <<
        <<"D", "i", "r", "e", "i", "t", "o", " ", "(", "D", ")">>,
        <<"C", "i", "U+00EA", "n", "c", "i", "a", "s", " ", "J", "u", "r",
          "U+00ED", "d", "i", "c", "a", "s", " ", "e", " ", "S", "o", "c",
          "i", "a", "i", "s", " ", "U+2013", " ", "D", "i", "r", "e", "i",
          "t", "o", " ", "(", "I", "n", "t", "e", "g", "r", "a", "l">>
    >>,
    <<
        <<"D", "i", "r", "e", "i", "t", "o", " ", "(", "N", ")">>,
        <<"C", "i", "U+00EA", "n", "c", "i", "a", "s", " ", "J", "u", "r",
          "U+00ED", "d", "i", "c", "a", "s", " ", "e", " ", "S", "o", "c",
          "i", "a", "i", "s", " ", "U+2013", " ", "D", "i", "r", "e", "i",
          "t", "o", " ", "(", "N", "o", "t", "u", "r", "n", "o">>
    >>,
    <<
        <<"E", "d", "u", "c", "a", "U+00E7", "U+00E3", "o", " ", "F",
          "U+00ED", "s", "i", "c", "a", " ", "(", "B", ")">>,
        <<"A", "B", "I", " ", "U+2013", " ", "E", "d", "u", "c", "a",
          "U+00E7", "U+00E3", "o", " ", "F", "U+00ED", "s", "i", "c", "a">>
    >>,
    <<
        <<"E", "n", "f", "e", "r", "m", "a", "g", "e", "m">>,
        <<"E", "n", "f", "e", "r", "m", "a", "g", "e", "m">>
    >>,
    <<
        <<"E", "n", "g", "e", "n", "h", "a", "r", "i", "a", " ", "A", "m",
          "b", "i", "e", "n", "t", "a", "l">>,
        <<"E", "n", "g", "e", "n", "h", "a", "r", "i", "a", " ", "A", "m",
          "b", "i", "e", "n", "t", "a", "l">>
    >>,
    <<
        <<"E", "n", "g", "e", "n", "h", "a", "r", "i", "a", " ", "C", "a",
          "r", "t", "o", "g", "r", "U+00E1", "f", "i", "c", "a", " ", "(",
          "N", ")">>,
        <<"E", "n", "g", "e", "n", "h", "a", "r", "i", "a", " ", "C", "a",
          "r", "t", "o", "g", "r", "U+00E1", "f", "i", "c", "a">>
    >>,
    <<
        <<"E", "n", "g", "e", "n", "h", "a", "r", "i", "a", " ", "C", "i",
          "v", "i", "l">>,
        <<"E", "n", "g", "e", "n", "h", "a", "r", "i", "a", " ", "C", "i",
          "v", "i", "l">>
    >>,
    <<
        <<"E", "n", "g", "e", "n", "h", "a", "r", "i", "a", " ", "C", "o",
          "n", "t", "r", " ", "A", "u", "t", "o", "m", "a", "U+00E7",
          "U+00E3", "o">>,
        <<"E", "n", "g", "e", "n", "h", "a", "r", "i", "a", " ", "d", "e",
          " ", "C", "o", "n", "t", "r", "o", "l", "e", " ", "e", " ", "A",
          "u", "t", "o", "m", "a", "U+00E7", "U+00E3", "o">>
    >>,
    <<
        <<"E", "n", "g", "e", "n", "h", "a", "r", "i", "a", " ", "d", "e",
          " ", "A", "l", "i", "m", "e", "n", "t", "o", "s">>,
        <<"E", "n", "g", "e", "n", "h", "a", "r", "i", "a", " ", "d", "e",
          " ", "A", "l", "i", "m", "e", "n", "t", "o", "s">>
    >>,
    <<
        <<"E", "n", "g", "e", "n", "h", "a", "r", "i", "a", " ", "d", "e",
          " ", "C", "o", "m", "p", "u", "t", "a", "U+00E7", "U+00E3", "o">>,
        <<"E", "n", "g", "e", "n", "h", "a", "r", "i", "a", " ", "d", "e",
          " ", "C", "o", "m", "p", "u", "t", "a", "U+00E7", "U+00E3", "o">>
    >>,
    <<
        <<"E", "n", "g", "e", "n", "h", "a", "r", "i", "a", " ", "d", "e",
          " ", "E", "n", "e", "r", "g", "i", "a">>,
        <<"E", "n", "g", "e", "n", "h", "a", "r", "i", "a", " ", "d", "e",
          " ", "E", "n", "e", "r", "g", "i", "a">>
    >>,
    <<
        <<"E", "n", "g", "e", "n", "h", "a", "r", "i", "a", " ", "d", "e",
          " ", "M", "a", "t", "e", "r", "i", "a", "i", "s">>,
        <<"E", "n", "g", "e", "n", "h", "a", "r", "i", "a", " ", "d", "e",
          " ", "M", "a", "t", "e", "r", "i", "a", "i", "s">>
    >>,
    <<
        <<"E", "n", "g", "e", "n", "h", "a", "r", "i", "a", " ", "d", "e",
          " ", "M", "i", "n", "a", "s">>,
        <<"E", "n", "g", "e", "n", "h", "a", "r", "i", "a", " ", "d", "e",
          " ", "M", "i", "n", "a", "s">>
    >>,
    <<
        <<"E", "n", "g", "e", "n", "h", "a", "r", "i", "a", " ", "d", "e",
          " ", "P", "r", "o", "d", "u", "U+00E7", "U+00E3", "o">>,
        <<"E", "n", "g", "e", "n", "h", "a", "r", "i", "a", " ", "d", "e",
          " ", "P", "r", "o", "d", "u", "U+00E7", "U+00E3", "o">>
    >>,
    <<
        <<"E", "n", "g", "e", "n", "h", "a", "r", "i", "a", " ", "d", "e",
          " ", "S", "e", "r", "v", "i", "U+00E7", "o", "s">>,
        <<"E", "n", "g", "e", "n", "h", "a", "r", "i", "a", " ", "d", "e",
          " ", "S", "e", "r", "v", "i", "U+00E7", "o", "s">>
    >>,
    <<
        <<"E", "n", "g", "e", "n", "h", "a", "r", "i", "a", " ", "E", "l",
          "U+00E9", "t", "r", "i", "c", "a">>,
        <<"E", "n", "g", "e", "n", "h", "a", "r", "i", "a", " ", "E", "l",
          "U+00E9", "t", "r", "i", "c", "a">>
    >>,
    <<
        <<"E", "n", "g", "e", "n", "h", "a", "r", "i", "a", " ", "F",
          "U+00ED", "s", "i", "c", "a">>,
        <<"E", "n", "g", "e", "n", "h", "a", "r", "i", "a", " ", "F",
          "U+00ED", "s", "i", "c", "a">>
    >>,
    <<
        <<"E", "n", "g", "e", "n", "h", "a", "r", "i", "a", " ", "G", "e",
          "s", "t", " ", "E", "n", "e", "r", "g", "i", "a", " ", "C", "L", "N">>,
        <<"E", "n", "g", "e", "n", "h", "a", "r", "i", "a", " ", "d", "e",
          " ", "G", "e", "s", "t", "U+00E3", "o", " ", "d", "e", " ", "E",
          "n", "e", "r", "g", "i", "a">>
    >>,
    <<
        <<"E", "n", "g", "e", "n", "h", "a", "r", "i", "a", " ", "H",
          "U+00ED", "d", "r", "i", "c", "a">>,
        <<"E", "n", "g", "e", "n", "h", "a", "r", "i", "a", " ", "H",
          "U+00ED", "d", "r", "i", "c", "a">>
    >>,
    <<
        <<"E", "n", "g", "e", "n", "h", "a", "r", "i", "a", " ", "M", "e",
          "c", "U+00E2", "n", "i", "c", "a">>,
        <<"E", "n", "g", "e", "n", "h", "a", "r", "i", "a", " ", "M", "e",
          "c", "U+00E2", "n", "i", "c", "a">>
    >>,
    <<
        <<"E", "n", "g", "e", "n", "h", "a", "r", "i", "a", " ", "M", "e",
          "t", "a", "l", "U+00FA", "r", "g", "i", "c", "a">>,
        <<"E", "n", "g", "e", "n", "h", "a", "r", "i", "a", " ", "M", "e",
          "t", "a", "l", "U+00FA", "r", "g", "i", "c", "a">>
    >>,
    <<
        <<"E", "n", "g", "e", "n", "h", "a", "r", "i", "a", " ", "Q", "u",
          "U+00ED", "m", "i", "c", "a">>,
        <<"E", "n", "g", "e", "n", "h", "a", "r", "i", "a", " ", "Q", "u",
          "U+00ED", "m", "i", "c", "a">>
    >>,
    <<
        <<"E", "s", "t", "a", "t", "U+00ED", "s", "t", "i", "c", "a">>,
        <<"E", "s", "t", "a", "t", "U+00ED", "s", "t", "i", "c", "a">>
    >>,
    <<
        <<"F", "a", "r", "m", "U+00E1", "c", "i", "a">>,
        <<"F", "a", "r", "m", "U+00E1", "c", "i", "a">>
    >>,
    <<
        <<"F", "i", "l", "o", "s", "o", "f", "i", "a", " ", "(", "B", ")",
          " ", "(", "D", ")">>,
        <<"F", "i", "l", "o", "s", "o", "f", "i", "a", " ", "(", "I", "n",
          "t", "e", "g", "r", "a", "l">>
    >>,
    <<
        <<"F", "i", "l", "o", "s", "o", "f", "i", "a", " ", "(", "L", ")",
          " ", "(", "N", ")">>,
        <<"F", "i", "l", "o", "s", "o", "f", "i", "a", " ", "(", "N", "o",
          "t", "u", "r", "n", "o", ",", " ", "L", "i", "c", "e", "n", "c",
          "i", "a", "t", "u", "r", "a">>
    >>,
    <<
        <<"F", "i", "s", "i", "o", "t", "e", "r", "a", "p", "i", "a">>,
        <<"F", "i", "s", "i", "o", "t", "e", "r", "a", "p", "i", "a">>
    >>,
    <<
        <<"F", "o", "n", "o", "a", "u", "d", "i", "o", "l", "o", "g", "i", "a">>,
        <<"F", "o", "n", "o", "a", "u", "d", "i", "o", "l", "o", "g", "i", "a">>
    >>,
    <<
        <<"F", "U+00ED", "s", "i", "c", "a", " ", "(", "B", ")">>,
        <<"F", "U+00ED", "s", "i", "c", "a", " ", "(", "I", "n", "t", "e",
          "g", "r", "a", "l", ",", " ", "C", "a", "m", "p", "u", "s", " ",
          "d", "o", " ", "V", "a", "l", "e", ")">>
    >>,
    <<
        <<"F", "U+00ED", "s", "i", "c", "a", " ", "(", "L", ")", " ", "(",
          "D", ")">>,
        <<"F", "U+00ED", "s", "i", "c", "a", " ", "(", "L", "i", "c", "e",
          "n", "c", "i", "a", "t", "u", "r", "a", ",", " ", "C", "a", "m",
          "p", "u", "s", " ", "d", "o", " ", "V", "a", "l", "e", ")">>
    >>,
    <<
        <<"F", "U+00ED", "s", "i", "c", "a", " ", "(", "L", ")", " ", "(",
          "N", ")">>,
        <<"F", "U+00ED", "s", "i", "c", "a", " ", "(", "N", "o", "t", "u",
          "r", "n", "o", ",", " ", "L", "i", "c", "e", "n", "c", "i", "a",
          "t", "u", "r", "a">>
    >>,
    <<
        <<"F", "U+00ED", "s", "i", "c", "a", " ", "A", "s", "t", "r", "o",
          "f", "U+00ED", "s", "i", "c", "a">>,
        <<"F", "U+00ED", "s", "i", "c", "a", " ", "(", "I", "n", "t", "e",
          "g", "r", "a", "l", ",", " ", "C", "a", "m", "p", "u", "s", " ",
          "d", "o", " ", "V", "a", "l", "e", ")">>
    >>,
    <<
        <<"G", "e", "o", "g", "r", "a", "f", "i", "a", " ", "(", "D", ")">>,
        <<"G", "e", "o", "g", "r", "a", "f", "i", "a", " ", "(", "B", "a",
          "c", "h", "a", "r", "e", "l", "a", "d", "o", ",", " ", "C", "a",
          "m", "p", "u", "s", " ", "d", "o", " ", "V", "a", "l", "e", ")">>
    >>,
    <<
        <<"G", "e", "o", "g", "r", "a", "f", "i", "a", " ", "(", "L", ")",
          " ", "C", "L", "N">>,
        <<"G", "e", "o", "g", "r", "a", "f", "i", "a", " ", "(", "N", "o",
          "t", "u", "r", "n", "o", ",", " ", "L", "i", "c", "e", "n", "c",
          "i", "a", "t", "u", "r", "a", ",", " ", "C", "a", "m", "p", "u",
          "s", " ", "L", "i", "t", "o", "r", "a", "l", " ", "N", "o", "r",
          "t", "e", ")">>
    >>,
    <<
        <<"G", "e", "o", "g", "r", "a", "f", "i", "a", " ", "(", "N", ")">>,
        <<"G", "e", "o", "g", "r", "a", "f", "i", "a", " ", "(", "N", "o",
          "t", "u", "r", "n", "o", ",", " ", "B", "a", "c", "h", "a", "r",
          "e", "l", "a", "d", "o">>
    >>,
    <<
        <<"G", "e", "o", "l", "o", "g", "i", "a">>,
        <<"G", "e", "o", "l", "o", "g", "i", "a">>
    >>,
    <<
        <<"H", "i", "s", "t", "U+00F3", "r", "i", "a", " ", "(", "D", ")">>,
        <<"H", "i", "s", "t", "U+00F3", "r", "i", "a", " ", "(", "I", "n",
          "t", "e", "g", "r", "a", "l", ",", " ", "B", "a", "c", "h", "a",
          "r", "e", "l", "a", "d", "o">>
    >>,
    <<
        <<"H", "i", "s", "t", "U+00F3", "r", "i", "a", " ", "(", "N", ")">>,
        <<"H", "i", "s", "t", "U+00F3", "r", "i", "a", " ", "(", "N", "o",
          "t", "u", "r", "n", "o", ",", " ", "B", "a", "c", "h", "a", "r",
          "e", "l", "a", "d", "o">>
    >>,
    <<
        <<"H", "i", "s", "t", "U+00F3", "r", "i", "a", " ", "d", "a", " ",
          "A", "r", "t", "e">>,
        <<"H", "i", "s", "t", "U+00F3", "r", "i", "a", " ", "d", "a", " ",
          "A", "r", "t", "e">>
    >>,
    <<
        <<"I", "n", "t", "e", "r", " ", "C", "i", "U+00EA", "n", "c", "i",
          "a", " ", "T", "e", "c", "n", "o">>,
        <<"I", "n", "t", "e", "r", "d", "i", "s", "c", "i", "p", "l", "i",
          "n", "a", "r", " ", "e", "m", " ", "C", "i", "U+00EA", "n", "c",
          "i", "a", " ", "e", " ", "T", "e", "c", "n", "o", "l", "o", "g",
          "i", "a">>
    >>,
    <<
        <<"J", "o", "r", "n", "a", "l", "i", "s", "m", "o">>,
        <<"J", "o", "r", "n", "a", "l", "i", "s", "m", "o">>
    >>,
    <<
        <<"L", "e", "t", "r", "a", "s", " ", "(", "B", ")">>,
        <<"L", "e", "t", "r", "a", "s", " ", "(", "B", "a", "c", "h", "a",
          "r", "e", "l", "a", "d", "o">>
    >>,
    <<
        <<"L", "e", "t", "r", "a", "s", " ", "(", "B", ")", " ", "L", "i",
          "b", "r", "a", "s">>,
        <<"L", "e", "t", "r", "a", "s", " ", "(", "L", "i", "c", "e", "n",
          "c", "i", "a", "t", "u", "r", "a">>
    >>,
    <<
        <<"M", "U+00FA", "s", "i", "c", "a">>,
        None
    >>,
    <<
        <<"N", "u", "t", "r", "i", "U+00E7", "U+00E3", "o">>,
        <<"N", "u", "t", "r", "i", "U+00E7", "U+00E3", "o">>
    >>,
    <<
        <<"O", "d", "o", "n", "t", "o", "l", "o", "g", "i", "a", " ", "(",
          "D", ")">>,
        <<"O", "d", "o", "n", "t", "o", "l", "o", "g", "i", "a", " ", "(",
          "I", "n", "t", "e", "g", "r", "a", "l">>
    >>,
    <<
        <<"O", "d", "o", "n", "t", "o", "l", "o", "g", "i", "a", " ", "(",
          "N", ")">>,
        <<"O", "d", "o", "n", "t", "o", "l", "o", "g", "i", "a", " ", "(",
          "N", "o", "t", "u", "r", "n", "o">>
    >>,
    <<
        <<"P", "e", "d", "a", "g", "o", "g", "i", "a", " ", "(", "M", ")">>,
        <<"P", "e", "d", "a", "g", "o", "g", "i", "a", " ", "(", "M", "a",
          "t", "u", "t", "i", "n", "o">>
    >>,
    <<
        <<"P", "e", "d", "a", "g", "o", "g", "i", "a", " ", "(", "N", ")">>,
        <<"P", "e", "d", "a", "g", "o", "g", "i", "a", " ", "(", "N", "o",
          "t", "u", "r", "n", "o">>
    >>,
    <<
        <<"P", "o", "l", "U+00ED", "t", "i", "c", "a", "s", " ", "P",
          "U+00FA", "b", "l", "i", "c", "a", "s">>,
        <<"P", "o", "l", "U+00ED", "t", "i", "c", "a", "s", " ", "P",
          "U+00FA", "b", "l", "i", "c", "a", "s">>
    >>,
    <<
        <<"P", "s", "i", "c", "o", "l", "o", "g", "i", "a", " ", "(", "D", ")">>,
        <<"P", "s", "i", "c", "o", "l", "o", "g", "i", "a", " ", "(", "I",
          "n", "t", "e", "g", "r", "a", "l">>
    >>,
    <<
        <<"P", "s", "i", "c", "o", "l", "o", "g", "i", "a", " ", "(", "N", ")">>,
        <<"P", "s", "i", "c", "o", "l", "o", "g", "i", "a", " ", "(", "N",
          "o", "t", "u", "r", "n", "o">>
    >>,
    <<
        <<"P", "u", "b", "l", "i", "c", "i", "d", "a", "d", "e", " ", "&",
          " ", "P", "r", "o", "p", "a", "g", "a", "n", "d", "a">>,
        <<"P", "u", "b", "l", "i", "c", "i", "d", "a", "d", "e", " ", "e",
          " ", "P", "r", "o", "p", "a", "g", "a", "n", "d", "a">>
    >>,
    <<
        <<"Q", "u", "U+00ED", "m", "i", "c", "a">>,
        <<"Q", "u", "U+00ED", "m", "i", "c", "a", " ", "(", "I", "n", "t",
          "e", "g", "r", "a", "l">>
    >>,
    <<
        <<"Q", "u", "U+00ED", "m", "i", "c", "a", " ", "(", "L", ")", " ",
          "(", "N", ")">>,
        <<"Q", "u", "U+00ED", "m", "i", "c", "a", " ", "(", "N", "o", "t",
          "u", "r", "n", "o", ",", " ", "L", "i", "c", "e", "n", "c", "i",
          "a", "t", "u", "r", "a">>
    >>,
    <<
        <<"Q", "u", "U+00ED", "m", "i", "c", "a", " ", "I", "n", "d", "u",
          "s", "t", "r", "i", "a", "l", " ", "(", "I", ")">>,
        <<"Q", "u", "U+00ED", "m", "i", "c", "a", " ", "I", "n", "d", "u",
          "s", "t", "r", "i", "a", "l", " ", "(", "I", "n", "t", "e", "g",
          "r", "a", "l">>
    >>,
    <<
        <<"Q", "u", "U+00ED", "m", "i", "c", "a", " ", "I", "n", "d", "u",
          "s", "t", "r", "i", "a", "l", " ", "(", "N", ")">>,
        <<"Q", "u", "U+00ED", "m", "i", "c", "a", " ", "I", "n", "d", "u",
          "s", "t", "r", "i", "a", "l", " ", "(", "N", "o", "t", "u", "r",
          "n", "o">>
    >>,
    <<
        <<"R", "e", "l", ".", " ", "I", "n", "t", "e", "r", "n", "a", "c",
          "i", "o", "n", "a", "i", "s">>,
        <<"R", "e", "l", "a", "U+00E7", "U+00F5", "e", "s", " ", "I", "n",
          "t", "e", "r", "n", "a", "c", "i", "o", "n", "a", "i", "s">>
    >>,
    <<
        <<"R", "e", "l", "a", "U+00E7", "U+00F5", "e", "s", " ", "P",
          "U+00FA", "b", "l", "i", "c", "a", "s">>,
        <<"R", "e", "l", "a", "U+00E7", "U+00F5", "e", "s", " ", "P",
          "U+00FA", "b", "l", "i", "c", "a", "s">>
    >>,
    <<
        <<"S", "a", "U+00FA", "d", "e", " ", "C", "o", "l", "e", "t", "i",
          "v", "a">>,
        None
    >>,
    <<
        <<"S", "e", "r", "v", "i", "U+00E7", "o", " ", "S", "o", "c", "i",
          "a", "l">>,
        None
    >>,
    <<
        <<"T", "e", "a", "t", "r", "o">>,
        None
    >>,
    <<
        <<"T", "e", "a", "t", "r", "o", " ", "(", "L", ")">>,
        None
    >>,
    <<
        <<"Z", "Z", " ", "C", "O", "D", "E">>,
        None
    >>,
    <<
        <<"Z", "o", "o", "t", "e", "c", "n", "i", "a">>,
        None
    >>
>>

\* mapeamento_especial.get(nome_curso_pesos)
obter_padrao(nome_curso_pesos) ==
    LET I == {i \in 1..Len(mapeamento_especial) :
                 mapeamento_especial[i][1] = nome_curso_pesos}
    IN  IF I = {} THEN None
        ELSE mapeamento_especial[CHOOSE i \in I : TRUE][2]

\* faulty variant: the pattern has to open the full name
comeca_com(padrao, curso_completo) ==
    /\ Len(padrao) <= Len(curso_completo)
    /\ SubSeq(curso_completo, 1, Len(padrao)) = padrao

\* line 135: padrao in curso_completo
contem(padrao, curso_completo) ==
    \E k \in 0..(Len(curso_completo) - Len(padrao)) :
        SubSeq(curso_completo, k + 1, k + Len(padrao)) = padrao

\* the loop of lines 134-138 without its return: the last item whose key
\* contains the pattern
RECURSIVE ultimo_que_contem(_, _, _)
ultimo_que_contem(padrao, notas_corte_, i) ==
    IF i > Len(notas_corte_) THEN <<None, None>>
    ELSE LET depois == ultimo_que_contem(padrao, notas_corte_, i + 1)
         IN  IF depois # <<None, None>> THEN depois
             ELSE IF contem(padrao, notas_corte_[i][1])
             THEN <<notas_corte_[i][1], notas_corte_[i][2]>>
             ELSE <<None, None>>

\* lines 134-138: the first item of notas_corte, in dict order, whose key
\* contains the pattern
RECURSIVE primeiro_que_contem(_, _, _)
primeiro_que_contem(padrao, notas_corte_, i) ==
    IF i > Len(notas_corte_) THEN <<None, None>>
    ELSE IF contem(padrao, notas_corte_[i][1])
    THEN <<notas_corte_[i][1], notas_corte_[i][2]>>
    ELSE primeiro_que_contem(padrao, notas_corte_, i + 1)

\* the pair (curso_completo, nota) or (None, None)
mapear_curso_nota_corte(nome_curso_pesos, notas_corte_) ==
    LET padrao == obter_padrao(nome_curso_pesos)
    IN  IF padrao = None THEN <<None, None>>
        ELSE primeiro_que_contem(padrao, notas_corte_, 1)

----------------------------------------------------------------------------
(* AdmissionEvaluator: main of verificar_aprovacao.py, lines 192-267        *)

\* the characters program names are written with (the letters, digits and
\* punctuation of ASCII that names use, and the accented letters of the
\* alias table) in increasing code point order
Alfabeto == <<
    " ", "&", "'", "(", ")", ",", "-", ".", "/", "0", "1", "2", "3", "4",
    "5", "6", "7", "8", "9", ":", "A", "B", "C", "D", "E", "F", "G", "H",
    "I", "J", "K", "L", "M", "N", "O", "P", "Q", "R", "S", "T", "U", "V",
    "W", "X", "Y", "Z", "a", "b", "c", "d", "e", "f", "g", "h", "i", "j",
    "k", "l", "m", "n", "o", "p", "q", "r", "s", "t", "u", "v", "w", "x",
    "y", "z", "U+00E1", "U+00E2", "U+00E3", "U+00E7", "U+00E9", "U+00EA",
    "U+00ED", "U+00F3", "U+00F4", "U+00F5", "U+00FA", "U+2013"
>>

\* the rank of a character's code point
ord(c) == CHOOSE i \in 1..Len(Alfabeto) : Alfabeto[i] = c

\* a < b for two str: the first differing character decides, a proper prefix
\* comes first
RECURSIVE str_menor(_, _)
str_menor(a, b) ==
    IF b = <<>> THEN FALSE
    ELSE IF a = <<>> THEN TRUE
    ELSE IF Head(a) = Head(b) THEN str_menor(Tail(a), Tail(b))
    ELSE ord(Head(a)) < ord(Head(b))

\* the truth value of a str or None, and of a number or None
verdadeiro_str(x) == x # None /\ x # <<>>

verdadeiro_num(x) == x # None /\ x # Zero

\* line 205: if curso_completo and nota_corte
tem_nota_corte(curso_completo, nota_corte) ==
    verdadeiro_str(curso_completo) /\ verdadeiro_num(nota_corte)

\* faulty variant: a score equal to the cutoff does not reach it
atinge_so_acima(mh_, nota_corte) == RLt(nota_corte, mh_)

\* line 207: if mh >= nota_corte
atinge(mh_, nota_corte) == RLe(nota_corte, mh_)

\* lines 201-212: the three lists after the loop got to position i
RECURSIVE classificar(_, _, _, _)
classificar(cursos, mh_cursos_, notas_corte_, i) ==
    IF i = 0
    THEN [aprovados |-> <<>>, reprovados |-> <<>>, sem_nota_corte |-> <<>>]
    ELSE LET listas == classificar(cursos, mh_cursos_, notas_corte_, i - 1)
             curso == cursos[i]
             mh_ == mh_cursos_[curso]
             par == mapear_curso_nota_corte(curso, notas_corte_)
             curso_completo == par[1]
             nota_corte == par[2]
         IN  IF tem_nota_corte(curso_completo, nota_corte)
             THEN LET diferenca == RSub(mh_, nota_corte)
                      linha == <<curso, curso_completo, mh_, nota_corte, diferenca>>
                  IN  IF atinge(mh_, nota_corte)
                      THEN [listas EXCEPT !.aprovados = Append(@, linha)]
                      ELSE [listas EXCEPT !.reprovados = Append(@, linha)]
             ELSE [listas EXCEPT !.sem_nota_corte = Append(@, <<curso, mh_>>)]

\* the loop of line 201 run to its end
classificar_todos(cursos, mh_cursos_, notas_corte_) ==
    classificar(cursos, mh_cursos_, notas_corte_, Len(cursos))

RAbs(x) == IF RLt(x, Zero) THEN RSub(Zero, x) ELSE x

\* faulty variant: the smallest margin first
margem_crescente(y, x) == RLe(y[5], x[5])

\* line 219: key=lambda x: x[4], reverse=True
margem_decrescente(y, x) == RLe(x[5], y[5])

\* line 231: key=lambda x: abs(x[4])
distancia_crescente(y, x) == RLe(RAbs(y[5]), RAbs(x[5]))

\* the three orders the evaluator sorts by: y does not have to follow x
antes(chave, y, x) ==
    CASE chave = "nome" -> y = x \/ str_menor(y, x)
      [] chave = "margem" -> margem_decrescente(y, x)
      [] OTHER -> distancia_crescente(y, x)

\* sorted and list.sort: x goes behind every element that does not have to
\* follow it, so that equal elements keep their order (the sort is stable,
\* also with reverse=True)
RECURSIVE inserir(_, _, _)
inserir(lista, x, chave) ==
    IF lista = <<>> THEN <<x>>
    ELSE IF antes(chave, Head(lista), x)
    THEN <<Head(lista)>> \o inserir(Tail(lista), x, chave)
    ELSE <<x>> \o lista

RECURSIVE ordenar(_, _, _)
ordenar(lista, i, chave) ==
    IF i = 0 THEN <<>>
    ELSE inserir(ordenar(lista, i - 1, chave), lista[i], chave)

\* faulty variant: the loop starts at the second program
sorted_cursos_sem_primeiro(cursos) ==
    IF cursos = <<>> THEN <<>> ELSE Tail(ordenar(cursos, Len(cursos), "nome"))

\* faulty variant: pesos_cursos.keys() as the weights file lists them
cursos_na_ordem_do_catalogo(cursos) == cursos

\* line 201: sorted(pesos_cursos.keys())
sorted_cursos(cursos) == ordenar(cursos, Len(cursos), "nome")

\* lines 217-219
ordenar_aprovados(aprovados_) ==
    ordenar(aprovados_, Len(aprovados_), "margem")

\* lines 229-231
ordenar_reprovados(reprovados_) ==
    ordenar(reprovados_, Len(reprovados_), "distancia")

\* faulty variant: the rate left as a fraction
taxa_como_fracao(n_aprovados, total_com_nota) ==
    IF total_com_nota > 0
    THEN RDiv(R(n_aprovados), R(total_com_nota))
    ELSE NotComputed

\* lines 237-239 (and 265-266): the rate, a percentage, is computed only
\* when some program has a cutoff
taxa_de_aprovacao(n_aprovados, total_com_nota) ==
    IF total_com_nota > 0
    THEN RMul(RDiv(R(n_aprovados), R(total_com_nota)), R(100))
    ELSE NotComputed

\* lines 253-263: the counters of the final summary, over the keys as the
\* dict holds them
RECURSIVE contar_resumo(_, _, _, _)
contar_resumo(cursos, mh_cursos_, notas_corte_, i) ==
    IF i = 0 THEN [aprovados_count |-> 0, total_count |-> 0]
    ELSE LET c == contar_resumo(cursos, mh_cursos_, notas_corte_, i - 1)
             par == mapear_curso_nota_corte(cursos[i], notas_corte_)
         IN  IF tem_nota_corte(par[1], par[2])
             THEN [aprovados_count |->
                       c.aprovados_count
                       + IF atinge(mh_cursos_[cursos[i]], par[2]) THEN 1 ELSE 0,
                   total_count |-> c.total_count + 1]
             ELSE c

----------------------------------------------------------------------------
(* Inputs of the subject map and of the scorer *)

MaxItens == 2

Str_0_1 == <<"0", "-", "1">>
Str_1_2 == <<"1", "-", "2">>
Str_2_1 == <<"2", "-", "1">>
Str_60_61 == <<"6", "0", "-", "6", "1">>
Str_61_90 == <<"6", "1", "-", "9", "0">>
Str_61_62 == <<"6", "1", "-", "6", "2">>
Str_62_63 == <<"6", "2", "-", "6", "3">>

Item(nome, questoes_range) == [materia |-> nome, questoes |-> questoes_range]

\* day 1: ranges that hold question 0, share questions between two subjects,
\* straddle question 60, run backwards or lie wholly above 60, and a subject
\* name the map has no key for
ItensDia1 ==
    {Item("Lingua Portuguesa", Str_0_1), Item("Lingua Portuguesa", Str_1_2),
     Item("Literatura", Str_1_2), Item("Literatura", Str_60_61),
     Item("Literatura", Str_2_1), Item("Matematica", Str_61_90),
     Item("Ingles", Str_1_2)}

\* day 2: the two foreign-language tracks, sharing question 62, and a track
\* whose range starts at question 60
ItensDia2 ==
    {Item("Ingles", Str_61_62), Item("Espanhol", Str_62_63),
     Item("Ingles", Str_60_61)}

Distribuicoes(itens) == UNION {[1..n -> itens] : n \in 0..MaxItens}

InfoInputs == [dia_1 : Distribuicoes(ItensDia1), dia_2 : Distribuicoes(ItensDia2)]

Seq_61_75 == [i \in 1..15 |-> 60 + i]

IguaisDia1 == {<<1, 60>>, <<0, 61>>, Seq_61_75}

IguaisDia2 == {<<>>, <<61, 62>>, <<0, 60, 63, 63>>, Seq_61_75}

Prova(lista) == [k \in {"iguais"} |-> lista]

ResultsInputs ==
    {<<>>} \cup
    {[k \in {"PRIMEIRA_PROVA", "SEGUNDA_PROVA"} |->
         IF k = "PRIMEIRA_PROVA" THEN Prova(a) ELSE Prova(b)] :
     a \in IguaisDia1, b \in IguaisDia2}

\* the statistics shipped with the exam structure: matematica only
EstatisticasExame ==
    [k \in {"matematica"} |->
        [f \in {"media", "desvio_padrao"} |-> IF f = "media" THEN R(15) ELSE R(5)]]

IdleEps ==
    /\ nota_redacao = NotComputed
    /\ total_questoes = <<>>
    /\ escores_ac = <<>>

IdleAdm ==
    /\ catalogo = <<>>
    /\ mh_cursos = <<>>
    /\ aprovados = <<>>
    /\ reprovados = <<>>
    /\ sem_nota_corte = <<>>
    /\ taxa_aprovacao = NotComputed
    /\ aprovados_count = 0
    /\ total_count = 0
    /\ taxa = NotComputed

IdleRes ==
    /\ nome_curso = <<>>
    /\ resolvido = <<>>

IdlePar ==
    /\ results = <<>>
    /\ pesos_cursos = <<>>
    /\ llm_eps = <<>>
    /\ quadros = <<>>
    /\ llm_resultados = <<>>
    /\ veredictos = <<>>

IdleParse ==
    /\ pages_data = <<>>
    /\ pagina = 0
    /\ current_day = 0
    /\ question_sequence = <<>>

\* before LLMClient is constructed, before output is built, before
\* process_test returns
SemCliente == [provider |-> "", api_key |-> None, model |-> ""]

SemOutput ==
    [metadata |-> [pdf_file |-> <<>>, provider |-> "", model_used |-> "",
                   total_questions |-> 0],
     answers |-> <<>>]

Pendente == [tipo |-> "pending", valor |-> SemOutput]

SemPdf == [legivel |-> FALSE, pages |-> <<>>]

SemArquivo == [escrito |-> "nada", conteudo |-> SemOutput]

IdleAnswer ==
    /\ questions = <<>>
    /\ questions_type = "dict"
    /\ pdf_path = <<>>
    /\ pdf = SemPdf
    /\ output_json_path = None
    /\ provider = ""
    /\ api_key = None
    /\ model = ""
    /\ env = [vars |-> <<>>, sem_pacote |-> {}]
    /\ llm_client = SemCliente
    /\ idx = 0
    /\ answers = <<>>
    /\ chamadas = <<>>
    /\ output = SemOutput
    /\ arquivo = SemArquivo
    /\ result = Pendente

IdleLlm ==
    /\ IdleParse
    /\ IdleAnswer

IdleLater ==
    /\ IdleEps
    /\ IdleAdm
    /\ notas_corte = <<>>
    /\ IdleRes
    /\ IdlePar
    /\ IdleLlm

IdleCnt ==
    /\ info = [dia_1 |-> <<>>, dia_2 |-> <<>>]
    /\ mapeamento = [erro |-> "", mapa |-> <<>>]
    /\ results_llm = <<>>
    /\ acertos_mh = <<>>
    /\ acertos_ac = <<>>

InitCnt ==
    /\ pc = "cnt_inputs"
    /\ info \in InfoInputs
    /\ mapeamento = [erro |-> "", mapa |-> <<>>]
    /\ results_llm = <<>>
    /\ acertos_mh = <<>>
    /\ acertos_ac = <<>>
    /\ estatisticas = EstatisticasExame
    /\ eps = <<>>
    /\ pesos = <<>>
    /\ mh = NotComputed
    /\ ac = NotComputed
    /\ fator = 0
    /\ mh_antes = NotComputed
    /\ materia = ""
    /\ acertos = 0
    /\ ep = NotComputed
    /\ ep_ac = NotComputed
    /\ acertos_antes = -1
    /\ ep_antes = NotComputed
    /\ ep_ac_antes = NotComputed
    /\ IdleLater

\* main, line 216 (AC main, line 204): the map is built once per run
Mapear ==
    /\ pc = "cnt_inputs"
    /\ mapeamento' = mapear_questoes_por_materia(info)
    /\ pc' = IF mapeamento'.erro = "" THEN "cnt_mapped" ELSE "cnt_failed"
    /\ UNCHANGED <<info, results_llm, acertos_mh, acertos_ac, aggVars, stdVars, laterVars>>

\* main, lines 229-237 (AC main, line 220): one candidate is tallied and its
\* tallies standardized
Avaliar(llm_dados) ==
    /\ pc = "cnt_mapped"
    /\ results_llm' = llm_dados
    /\ acertos_mh' = contar_acertos_por_materia(llm_dados, mapeamento.mapa)
    /\ acertos_ac' = contar_acertos_por_materia_ac(llm_dados, mapeamento.mapa)
    /\ eps' = calcular_eps_por_materia(acertos_mh', estatisticas, nota_redacao_main)
    /\ pc' = "cnt_scored"
    /\ UNCHANGED <<info, mapeamento, pesos, mh, ac, fator, mh_antes, stdVars, laterVars>>

NextCnt ==
    \/ Mapear
    \/ \E llm_dados \in ResultsInputs : Avaliar(llm_dados)

SpecCnt == InitCnt /\ [][NextCnt]_vars

----------------------------------------------------------------------------
(* Inputs of the standardizer *)

MaxAcertos == 3
MaxEscores == 2

MediaValues == {R(1), R(2)}

\* a standard deviation is never negative
DesvioValues == {R(0), R(2)}

TableEPValues == {R(300), R(900)}

\* score tables: one entry per raw count at most
EscoresTables ==
    UNION {{t \in [1..n -> [acertos : 0..MaxAcertos, ep : TableEPValues]] :
               \A i, j \in 1..n : i # j => t[i].acertos # t[j].acertos} :
           n \in 0..MaxEscores}

Field(name, values) == {<<>>} \cup {[k \in {name} |-> v] : v \in values}

Merge(f, g) == [k \in DOMAIN f \cup DOMAIN g |-> IF k \in DOMAIN f THEN f[k] ELSE g[k]]

\* a subject's record: each of media, desvio_padrao, escores may be absent
StatsRecords ==
    {Merge(m, Merge(d, e)) : m \in Field("media", MediaValues),
                             d \in Field("desvio_padrao", DesvioValues),
                             e \in Field("escores", EscoresTables)}

EstatisticasInputs ==
    {<<>>} \cup {[k \in {key} |-> r] : key \in {"matematica", "ingles"},
                                      r \in StatsRecords}

MateriasInputs == {"matematica", "lingua_estrangeira"}

IdleAgg ==
    /\ eps = <<>>
    /\ pesos = <<>>
    /\ mh = NotComputed
    /\ ac = NotComputed
    /\ fator = 0
    /\ mh_antes = NotComputed

IdleStd ==
    /\ estatisticas = <<>>
    /\ materia = ""
    /\ acertos = 0
    /\ ep = NotComputed
    /\ ep_ac = NotComputed
    /\ acertos_antes = -1
    /\ ep_antes = NotComputed
    /\ ep_ac_antes = NotComputed

InitStd ==
    /\ pc = "std_inputs"
    /\ estatisticas \in EstatisticasInputs
    /\ materia \in MateriasInputs
    /\ acertos \in 0..MaxAcertos
    /\ ep = NotComputed
    /\ ep_ac = NotComputed
    /\ acertos_antes = -1
    /\ ep_antes = NotComputed
    /\ ep_ac_antes = NotComputed
    /\ IdleAgg
    /\ IdleCnt
    /\ IdleLater

\* calcular_eps_por_materia, line 140 / calcular_ac_para_curso, line 154
Standardize ==
    /\ pc = "std_inputs"
    /\ ep' = obter_ep_por_acertos(estatisticas, materia, acertos)
    /\ ep_ac' = ac_escore_padronizado(estatisticas, materia, acertos)
    /\ pc' = "std_done"
    /\ UNCHANGED <<estatisticas, materia, acertos, acertos_antes, ep_antes,
                   ep_ac_antes, aggVars, cntVars, laterVars>>

\* the same subject standardized for a larger raw count b
StandardizeLarger(b) ==
    /\ pc = "std_done"
    /\ b > acertos
    /\ acertos_antes' = acertos
    /\ ep_antes' = ep
    /\ ep_ac_antes' = ep_ac
    /\ acertos' = b
    /\ ep' = obter_ep_por_acertos(estatisticas, materia, b)
    /\ ep_ac' = ac_escore_padronizado(estatisticas, materia, b)
    /\ pc' = "std_larger"
    /\ UNCHANGED <<estatisticas, materia, aggVars, cntVars, laterVars>>

NextStd ==
    \/ Standardize
    \/ \E b \in 0..MaxAcertos : StandardizeLarger(b)

SpecStd == InitStd /\ [][NextStd]_vars

----------------------------------------------------------------------------
(* The essay combination: calcular_eps_por_materia and the first half of     *)
(* calcular_ac_para_curso applied to tallies of any set of subjects          *)

MateriasEps == {"portugues", "matematica"}

\* essay grades: the one main passes, the mean, the lowest
NotaValues == {nota_redacao_main, R(6), R(0)}

\* tallies of a subset of the subjects, 0 to MaxAcertos each
AcertosInputs ==
    UNION {[D -> 0..MaxAcertos] : D \in SUBSET MateriasEps}

\* a subject has MaxAcertos questions, or none and then a tally of 0
TotaisDe(acertos_) ==
    {t \in [DOMAIN acertos_ -> {0, MaxAcertos}] :
        \A m \in DOMAIN acertos_ : acertos_[m] <= t[m]}

EstatisticasEps ==
    {<<>>,
     [k \in {"portugues"} |->
        [f \in {"media", "desvio_padrao"} |-> IF f = "media" THEN R(1) ELSE R(2)]],
     [k \in {"portugues"} |->
        [f \in {"media", "desvio_padrao", "escores"} |->
            CASE f = "media" -> R(1)
              [] f = "desvio_padrao" -> R(0)
              [] OTHER -> <<[acertos |-> 1, ep |-> R(900)]>>]]}

InitEps ==
    /\ pc = "eps_inputs"
    /\ acertos_mh \in AcertosInputs
    /\ total_questoes \in TotaisDe(acertos_mh)
    /\ estatisticas \in EstatisticasEps
    /\ nota_redacao \in NotaValues
    /\ eps = <<>>
    /\ escores_ac = <<>>
    /\ pesos = <<>>
    /\ mh = NotComputed
    /\ ac = NotComputed
    /\ fator = 0
    /\ mh_antes = NotComputed
    /\ materia = ""
    /\ acertos = 0
    /\ ep = NotComputed
    /\ ep_ac = NotComputed
    /\ acertos_antes = -1
    /\ ep_antes = NotComputed
    /\ ep_ac_antes = NotComputed
    /\ info = [dia_1 |-> <<>>, dia_2 |-> <<>>]
    /\ mapeamento = [erro |-> "", mapa |-> <<>>]
    /\ results_llm = <<>>
    /\ acertos_ac = <<>>
    /\ IdleAdm
    /\ notas_corte = <<>>
    /\ IdleRes
    /\ IdlePar
    /\ IdleLlm

\* cursos script, main line 237: calcular_eps_por_materia
CalcularEps ==
    /\ pc = "eps_inputs"
    /\ eps' = calcular_eps_por_materia(acertos_mh, estatisticas, nota_redacao)
    /\ pc' = "eps_cursos"
    /\ UNCHANGED <<pesos, mh, ac, fator, mh_antes, stdVars, cntVars, epsVars,
                   admVars, notas_corte, resVars, parVars, llmVars>>

\* AC script, calcular_ac_para_curso on the same tallies
CalcularEscoresAC ==
    /\ pc = "eps_cursos"
    /\ escores_ac' = ac_escores_padronizados(acertos_mh, total_questoes,
                                             estatisticas, nota_redacao)
    /\ pc' = "eps_done"
    /\ UNCHANGED <<aggVars, stdVars, cntVars, nota_redacao, total_questoes,
                   admVars, notas_corte, resVars, parVars, llmVars>>

NextEps ==
    \/ CalcularEps
    \/ CalcularEscoresAC

SpecEps == InitEps /\ [][NextEps]_vars

----------------------------------------------------------------------------
(* Inputs of the aggregator *)

MaxPesosLen == 3
MaxPeso == 2
MaxFator == 2

\* weight keys: two known abbreviations, the metadata key, and a key that is
\* no abbreviation (it is the full subject name the AC script looks up)
ChavesPeso == {"MAT", "POR", "total", "matematica"}

\* scores, including non-positive ones
EPValues == {R(-100), R(0), R(500), R(600)}

EpsSets ==
    UNION {[S -> EPValues] : S \in SUBSET {"matematica", "portugues_redacao"}}

WithPortugues(e) == [m \in DOMAIN e \cup {"portugues"} |->
                        IF m = "portugues" THEN R(300) ELSE e[m]]

\* the raw language score accompanies a positive combined score
EpsInputs ==
    EpsSets \cup
    {WithPortugues(e) : e \in {x \in EpsSets : "portugues_redacao" \in DOMAIN x
                                                /\ RPos(x["portugues_redacao"])}}

\* ordered weight tables with distinct keys (a dict in iteration order)
PesosTables ==
    UNION {{t \in [1..n -> ChavesPeso \X (0..MaxPeso)] :
               \A i, j \in 1..n : i # j => t[i][1] # t[j][1]} :
           n \in 0..MaxPesosLen}

multiplicar_pesos(pesos_, k) ==
    [i \in 1..Len(pesos_) |->
        IF pesos_[i][1] = "total" THEN pesos_[i]
        ELSE <<pesos_[i][1], k * pesos_[i][2]>>]

InitAgg ==
    /\ pc = "agg_inputs"
    /\ eps \in EpsInputs
    /\ pesos \in PesosTables
    /\ mh = NotComputed
    /\ ac = NotComputed
    /\ fator = 0
    /\ mh_antes = NotComputed
    /\ IdleStd
    /\ IdleCnt
    /\ IdleLater

\* one (candidate, program) evaluation: main, line 254 / AC main, line 238
Aggregate ==
    /\ pc = "agg_inputs"
    /\ mh' = calcular_media_harmonica_ponderada(eps, pesos)
    /\ ac' = ac_media_harmonica(eps, pesos)
    /\ pc' = "agg_done"
    /\ UNCHANGED <<eps, pesos, fator, mh_antes, stdVars, cntVars, laterVars>>

\* the same candidate against the same program with every weight times k
Rescale(k) ==
    /\ pc = "agg_done"
    /\ pesos' = multiplicar_pesos(pesos, k)
    /\ fator' = k
    /\ mh_antes' = mh
    /\ mh' = calcular_media_harmonica_ponderada(eps, pesos')
    /\ ac' = ac_media_harmonica(eps, pesos')
    /\ pc' = "agg_rescaled"
    /\ UNCHANGED <<eps, stdVars, cntVars, laterVars>>

NextAgg ==
    \/ Aggregate
    \/ \E k \in 2..MaxFator : Rescale(k)

SpecAgg == InitAgg /\ [][NextAgg]_vars

----------------------------------------------------------------------------
(* Inputs of the cutoff resolver and of the admission evaluator *)

MaxCursos == 2
MaxCortes == 2

\* short names of the weights file
Nomes == [
    danca |->
        <<"D", "a", "n", "U+00E7", "a">>,
    musica |->
        <<"M", "U+00FA", "s", "i", "c", "a">>,
    medicina |->
        <<"M", "e", "d", "i", "c", "i", "n", "a">>,
    quimica |->
        <<"Q", "u", "U+00ED", "m", "i", "c", "a">>,
    biomedicina |->
        <<"B", "i", "o", "m", "e", "d", "i", "c", "i", "n", "a">>,
    biotecnologia |->
        <<"B", "i", "o", "t", "e", "c", "n", "o", "l", "o", "g", "i", "a">>,
    enfermagem |->
        <<"E", "n", "f", "e", "r", "m", "a", "g", "e", "m">>,
    estatistica |->
        <<"E", "s", "t", "a", "t", "U+00ED", "s", "t", "i", "c", "a">>,
    farmacia |->
        <<"F", "a", "r", "m", "U+00E1", "c", "i", "a">>,
    fisioterapia |->
        <<"F", "i", "s", "i", "o", "t", "e", "r", "a", "p", "i", "a">>,
    geologia |->
        <<"G", "e", "o", "l", "o", "g", "i", "a">>,
    jornalismo |->
        <<"J", "o", "r", "n", "a", "l", "i", "s", "m", "o">>,
    nutricao |->
        <<"N", "u", "t", "r", "i", "U+00E7", "U+00E3", "o">>,
    saude_coletiva |->
        <<"S", "a", "U+00FA", "d", "e", " ", "C", "o", "l", "e", "t", "i",
          "v", "a">>,
    servico_social |->
        <<"S", "e", "r", "v", "i", "U+00E7", "o", " ", "S", "o", "c", "i",
          "a", "l">>,
    teatro |->
        <<"T", "e", "a", "t", "r", "o">>,
    zootecnia |->
        <<"Z", "o", "o", "t", "e", "c", "n", "i", "a">>
]

\* full names of the cutoff file: the pattern of Nomes.danca inside a longer
\* name, two names that hold the pattern of Nomes.quimica, and a name that
\* holds the word but not the pattern
Chaves == [
    licenciatura_danca |->
        <<"L", "i", "c", "e", "n", "c", "i", "a", "t", "u", "r", "a", " ",
          "e", "m", " ", "D", "a", "n", "U+00E7", "a">>,
    quimica_vale |->
        <<"Q", "u", "U+00ED", "m", "i", "c", "a", " ", "(", "I", "n", "t",
          "e", "g", "r", "a", "l", ",", " ", "C", "a", "m", "p", "u", "s",
          " ", "d", "o", " ", "V", "a", "l", "e", ")">>,
    quimica_bacharelado |->
        <<"Q", "u", "U+00ED", "m", "i", "c", "a", " ", "(", "I", "n", "t",
          "e", "g", "r", "a", "l", ",", " ", "B", "a", "c", "h", "a", "r",
          "e", "l", "a", "d", "o", ")">>,
    quimica_industrial |->
        <<"Q", "u", "U+00ED", "m", "i", "c", "a", " ", "I", "n", "d", "u",
          "s", "t", "r", "i", "a", "l", " ", "(", "I", "n", "t", "e", "g",
          "r", "a", "l", ")">>
]

\* a name with a pattern that is found, a name without published cutoff, a
\* name the alias table does not hold, a name whose pattern two keys hold
NomesCatalogo == {Nomes.danca, Nomes.musica, Nomes.medicina, Nomes.quimica}

ChavesCorte == {Chaves.licenciatura_danca, Chaves.quimica_vale,
                Chaves.quimica_bacharelado, Chaves.quimica_industrial}

\* the keys of a dict are distinct
SemRepeticao(seq) == \A i, j \in 1..Len(seq) : i # j => seq[i] # seq[j]

Catalogos ==
    {c \in UNION {[1..n -> NomesCatalogo] : n \in 0..MaxCursos} : SemRepeticao(c)}

MhValues == {R(450), R(600)}

NotaCorteValues == {R(0), R(500), R(600)}

NotasTabelas ==
    UNION {{t \in [1..n -> ChavesCorte \X NotaCorteValues] :
               \A i, j \in 1..n : i # j => t[i][1] # t[j][1]} : n \in 0..MaxCortes}

\* fifteen programs: ten with a cutoff, three of them reached, and five
\* without published cutoff; the weights file lists them in no order
Cenario15 ==
    [catalogo |->
        <<Nomes.zootecnia, Nomes.nutricao, Nomes.biomedicina, Nomes.teatro,
          Nomes.jornalismo, Nomes.geologia, Nomes.musica, Nomes.fisioterapia,
          Nomes.farmacia, Nomes.servico_social, Nomes.estatistica,
          Nomes.enfermagem, Nomes.danca, Nomes.saude_coletiva,
          Nomes.biotecnologia>>,
     mh |-> R(550),
     notas_corte |->
        <<<<Nomes.biomedicina, R(500)>>, <<Nomes.biotecnologia, R(600)>>,
          <<Nomes.danca, R(450)>>, <<Nomes.enfermagem, R(600)>>,
          <<Nomes.estatistica, R(610)>>, <<Nomes.farmacia, R(700)>>,
          <<Nomes.fisioterapia, R(650)>>, <<Nomes.geologia, R(550)>>,
          <<Nomes.jornalismo, R(560)>>, <<Nomes.nutricao, R(580)>>>>]

InitAdm ==
    /\ pc = "adm_inputs"
    /\ \/ /\ catalogo \in Catalogos
          /\ mh_cursos \in [{catalogo[i] : i \in 1..Len(catalogo)} -> MhValues]
          /\ notas_corte \in NotasTabelas
       \/ /\ catalogo = Cenario15.catalogo
          /\ mh_cursos = [c \in {catalogo[i] : i \in 1..Len(catalogo)} |->
                             Cenario15.mh]
          /\ notas_corte = Cenario15.notas_corte
    /\ aprovados = <<>>
    /\ reprovados = <<>>
    /\ sem_nota_corte = <<>>
    /\ taxa_aprovacao = NotComputed
    /\ aprovados_count = 0
    /\ total_count = 0
    /\ taxa = NotComputed
    /\ IdleRes
    /\ IdleAgg
    /\ IdleStd
    /\ IdleCnt
    /\ IdleEps
    /\ IdlePar
    /\ IdleLlm

\* lines 197-239: one candidate's programs are classified, the two lists
\* sorted and the rate computed
Analisar ==
    /\ pc = "adm_inputs"
    /\ LET listas == classificar_todos(sorted_cursos(catalogo), mh_cursos,
                                       notas_corte)
       IN  /\ aprovados' = ordenar_aprovados(listas.aprovados)
           /\ reprovados' = ordenar_reprovados(listas.reprovados)
           /\ sem_nota_corte' = listas.sem_nota_corte
           /\ taxa_aprovacao' =
                 taxa_de_aprovacao(Len(listas.aprovados),
                                   Len(listas.aprovados) + Len(listas.reprovados))
    /\ pc' = "adm_analysed"
    /\ UNCHANGED <<catalogo, mh_cursos, notas_corte, aprovados_count,
                   total_count, taxa, resVars, aggVars, stdVars, cntVars, epsVars,
                   parVars, llmVars>>

\* lines 252-267: the final summary counts again
Resumo ==
    /\ pc = "adm_analysed"
    /\ LET c == contar_resumo(catalogo, mh_cursos, notas_corte, Len(catalogo))
       IN  /\ aprovados_count' = c.aprovados_count
           /\ total_count' = c.total_count
           /\ taxa' = taxa_de_aprovacao(c.aprovados_count, c.total_count)
    /\ pc' = "adm_summarised"
    /\ UNCHANGED <<catalogo, mh_cursos, notas_corte, aprovados, reprovados,
                   sem_nota_corte, taxa_aprovacao, resVars, aggVars, stdVars,
                   cntVars, epsVars, parVars, llmVars>>

NextAdm ==
    \/ Analisar
    \/ Resumo

SpecAdm == InitAdm /\ [][NextAdm]_vars

\* every short name of the alias table, and one it does not hold
NomesInputs ==
    {mapeamento_especial[i][1] : i \in 1..Len(mapeamento_especial)}
    \cup {Nomes.medicina}

InitRes ==
    /\ pc = "res_inputs"
    /\ nome_curso \in NomesInputs
    /\ notas_corte \in NotasTabelas \cup {Cenario15.notas_corte}
    /\ resolvido = <<>>
    /\ IdleAdm
    /\ IdleAgg
    /\ IdleStd
    /\ IdleCnt
    /\ IdleEps
    /\ IdlePar
    /\ IdleLlm

\* line 203: one call of mapear_curso_nota_corte
Resolver ==
    /\ pc = "res_inputs"
    /\ resolvido' = mapear_curso_nota_corte(nome_curso, notas_corte)
    /\ pc' = "res_done"
    /\ UNCHANGED <<nome_curso, notas_corte, admVars, aggVars, stdVars, cntVars,
                   epsVars, parVars, llmVars>>

NextRes == Resolver

SpecRes == InitRes /\ [][NextRes]_vars

----------------------------------------------------------------------------
(* Evaluations of (candidate, program) pairs in any order: lines 182-212 of  *)
(* verificar_aprovacao.py with the aggregator run one iteration at a time    *)

\* faulty variant: one set of accumulators for all calls
quadro_unico(par) == <<>>

\* lines 176-177: soma_pesos and soma_inversos are local to the call
quadro(par) == par

\* one iteration of lines 179-192 on the local variables of a call; retorno
\* is the value of an early return
iterar_media_harmonica(eps_, pesos_, q) ==
    LET abrev == pesos_[q.i][1]
        peso == R(pesos_[q.i][2])
    IN  IF abrev = "total" \/ materia_de(abrev) = ""
        THEN [q EXCEPT !.i = @ + 1]
        ELSE LET ep_ == ep_da_materia(eps_, materia_de(abrev))
             IN  IF ep_positivo(ep_)
                 THEN [q EXCEPT !.i = @ + 1,
                                !.soma_pesos = acumular_peso(@, peso),
                                !.soma_inversos = acumular_inverso(@, peso, ep_)]
                 ELSE [q EXCEPT !.retorno = Zero]

\* lines 194-196
concluir_media_harmonica(q) ==
    IF q.retorno # NotComputed THEN q.retorno
    ELSE IF RPos(q.soma_inversos) THEN RDiv(q.soma_pesos, q.soma_inversos)
    ELSE Zero

\* verificar_aprovacao.py, lines 203-212: the list a program is appended to
veredicto(curso, mh_, notas_corte_) ==
    LET par == mapear_curso_nota_corte(curso, notas_corte_)
    IN  IF tem_nota_corte(par[1], par[2])
        THEN IF atinge(mh_, par[2]) THEN "aprovados" ELSE "reprovados"
        ELSE "sem_nota_corte"

Llms == {"llm_a", "llm_b"}

\* the reference data: structure, weights and the answer sets and cutoff
\* tables to choose from
DadosPar ==
    [info |-> [dia_1 |-> <<Item("Lingua Portuguesa", Str_1_2),
                           Item("Literatura", Str_60_61)>>,
               dia_2 |-> <<Item("Ingles", Str_61_62)>>],
     pesos_cursos |->
        [c \in {Nomes.danca, Nomes.quimica} |->
            IF c = Nomes.danca
            THEN <<<<"POR", 2>>, <<"MAT", 1>>, <<"total", 3>>>>
            ELSE <<<<"LIN", 1>>, <<"POR", 1>>>>],
     results |->
        {r \in ResultsInputs \ {<<>>} :
            /\ r["PRIMEIRA_PROVA"]["iguais"] \in {<<1, 60>>, <<0, 61>>}
            /\ r["SEGUNDA_PROVA"]["iguais"] = <<61, 62>>},
     notas_corte |->
        {<<<<Chaves.licenciatura_danca, R(500)>>, <<Chaves.quimica_vale, R(600)>>>>,
         <<<<Chaves.licenciatura_danca, R(0)>>>>}]

InitPar ==
    /\ pc = "par"
    /\ info = DadosPar.info
    /\ mapeamento = mapear_questoes_por_materia(info)
    /\ estatisticas = EstatisticasExame
    /\ pesos_cursos = DadosPar.pesos_cursos
    /\ results \in [Llms -> DadosPar.results]
    /\ notas_corte \in DadosPar.notas_corte
    /\ llm_eps = <<>>
    /\ quadros = <<>>
    /\ llm_resultados = <<>>
    /\ veredictos = <<>>
    /\ results_llm = <<>>
    /\ acertos_mh = <<>>
    /\ acertos_ac = <<>>
    /\ materia = ""
    /\ acertos = 0
    /\ ep = NotComputed
    /\ ep_ac = NotComputed
    /\ acertos_antes = -1
    /\ ep_antes = NotComputed
    /\ ep_ac_antes = NotComputed
    /\ IdleAgg
    /\ IdleEps
    /\ IdleAdm
    /\ IdleRes
    /\ IdleLlm

\* what a step of an evaluation leaves alone: the reference data, the answer
\* sets and every variable of the other function groups
ParFrame ==
    UNCHANGED <<pc, results, pesos_cursos, notas_corte, aggVars, stdVars, cntVars,
                epsVars, admVars, resVars, llmVars>>

Com(f, k, v) == [x \in DOMAIN f \cup {k} |-> IF x = k THEN v ELSE f[x]]

\* lines 183-184: the candidate's tallies and standardized scores
Pontuar(l) ==
    /\ l \notin DOMAIN llm_eps
    /\ llm_eps' =
          Com(llm_eps, l,
              calcular_eps_por_materia(
                  contar_acertos_por_materia(results[l], mapeamento.mapa),
                  estatisticas, nota_redacao_main))
    /\ UNCHANGED <<quadros, llm_resultados, veredictos>>
    /\ ParFrame

\* line 188: calcular_media_harmonica_ponderada is called
Chamar(l, c) ==
    /\ l \in DOMAIN llm_eps
    /\ <<l, c>> \notin DOMAIN llm_resultados
    /\ llm_resultados' = Com(llm_resultados, <<l, c>>, NotComputed)
    /\ quadros' = Com(quadros, quadro(<<l, c>>),
                      [i |-> 1, soma_pesos |-> Zero, soma_inversos |-> Zero,
                       retorno |-> NotComputed])
    /\ UNCHANGED <<llm_eps, veredictos>>
    /\ ParFrame

\* the call runs one iteration of its loop
Iterar(l, c) ==
    /\ <<l, c>> \in DOMAIN llm_resultados
    /\ llm_resultados[<<l, c>>] = NotComputed
    /\ quadro(<<l, c>>) \in DOMAIN quadros
    /\ LET q == quadros[quadro(<<l, c>>)]
       IN  /\ q.retorno = NotComputed
           /\ q.i <= Len(pesos_cursos[c])
           /\ quadros' = [quadros EXCEPT ![quadro(<<l, c>>)] =
                             iterar_media_harmonica(llm_eps[l], pesos_cursos[c], q)]
    /\ UNCHANGED <<llm_eps, llm_resultados, veredictos>>
    /\ ParFrame

\* the call returns; line 189 stores the score
Retornar(l, c) ==
    /\ <<l, c>> \in DOMAIN llm_resultados
    /\ llm_resultados[<<l, c>>] = NotComputed
    /\ quadro(<<l, c>>) \in DOMAIN quadros
    /\ LET q == quadros[quadro(<<l, c>>)]
       IN  /\ q.retorno # NotComputed \/ q.i > Len(pesos_cursos[c])
           /\ llm_resultados' =
                 [llm_resultados EXCEPT ![<<l, c>>] = concluir_media_harmonica(q)]
    /\ quadros' = [x \in DOMAIN quadros \ {quadro(<<l, c>>)} |-> quadros[x]]
    /\ UNCHANGED <<llm_eps, veredictos>>
    /\ ParFrame

\* lines 202-212: the program is put in one of the three lists
Classificar(l, c) ==
    /\ <<l, c>> \in DOMAIN llm_resultados
    /\ llm_resultados[<<l, c>>] # NotComputed
    /\ <<l, c>> \notin DOMAIN veredictos
    /\ veredictos' = Com(veredictos, <<l, c>>,
                         veredicto(c, llm_resultados[<<l, c>>], notas_corte))
    /\ UNCHANGED <<llm_eps, quadros, llm_resultados>>
    /\ ParFrame

NextPar ==
    \E l \in Llms :
        \/ Pontuar(l)
        \/ \E c \in DOMAIN pesos_cursos :
              \/ Chamar(l, c)
              \/ Iterar(l, c)
              \/ Retornar(l, c)
              \/ Classificar(l, c)

SpecPar == InitPar /\ [][NextPar]_vars

----------------------------------------------------------------------------
(* QuestionParser: parse_questions_with_pages of parser/pdf_parser.py.      *)
(* A page text is a sequence of one-character strings; the line feed is     *)
(* the string "U+000A".                                                     *)

LF == "U+000A"

\* \s on the characters page texts are written with
espaco(c) == c \in {" ", LF}

\* str.lower() of one character, as re.IGNORECASE compares
minuscula(c) ==
    CASE c = "A" -> "a" [] c = "D" -> "d" [] c = "F" -> "f" [] c = "G" -> "g"
      [] c = "I" -> "i" [] c = "N" -> "n" [] c = "O" -> "o" [] c = "P" -> "p"
      [] c = "R" -> "r" [] c = "S" -> "s" [] c = "U" -> "u"
      [] c = "U+00C1" -> "U+00E1"
      [] OTHER -> c

\* \s*DIA matches at position p
dia_em(text, p) ==
    \E b \in p..(Len(text) - 2) :
        /\ \A k \in p..(b - 1) : espaco(text[k])
        /\ minuscula(text[b]) = "d"
        /\ minuscula(text[b + 1]) = "i"
        /\ minuscula(text[b + 2]) = "a"

\* \s*[DºªOo]\s*DIA matches at position p
ordinal_dia_em(text, p) ==
    \E a \in p..Len(text) :
        /\ \A k \in p..(a - 1) : espaco(text[k])
        /\ minuscula(text[a]) \in {"d", "o", "U+00BA", "U+00AA"}
        /\ dia_em(text, a + 1)

\* lines 65 and 68: re.search(r'N.?\s*[DºªOo]\s*DIA', text, re.IGNORECASE)
marcador(n, text) ==
    \E k \in 1..Len(text) :
        /\ text[k] = n
        /\ \/ ordinal_dia_em(text, k + 1)
           \/ /\ k + 1 <= Len(text)
              /\ text[k + 1] # LF
              /\ ordinal_dia_em(text, k + 2)

\* faulty variant: a day-1 marker takes the parser back to day 1
dia_da_pagina_com_volta(current_day_, text) ==
    IF marcador("2", text) THEN 2
    ELSE IF marcador("1", text) THEN 1
    ELSE current_day_

\* lines 65-70: current_day after the markers of a page are looked at
dia_da_pagina(current_day_, text) ==
    IF marcador("2", text) THEN 2
    ELSE IF marcador("1", text) /\ current_day_ = 2 THEN current_day_
    ELSE current_day_

\* \d{2,3}\. at position p: the number of digits matched, 0 for no match
digitos_ponto(text, p) ==
    IF /\ p + 3 <= Len(text)
       /\ \A k \in p..(p + 2) : text[k] \in Digitos
       /\ text[p + 3] = "."
    THEN 3
    ELSE IF /\ p + 2 <= Len(text)
            /\ \A k \in p..(p + 1) : text[k] \in Digitos
            /\ text[p + 2] = "."
    THEN 2
    ELSE 0

\* the first position from p on that holds no whitespace
RECURSIVE fim_dos_espacos(_, _)
fim_dos_espacos(text, p) ==
    IF p <= Len(text) /\ espaco(text[p]) THEN fim_dos_espacos(text, p + 1)
    ELSE p

\* (.*?)(?=\d{2,3}\.|$) from p: the first position where the lookahead holds
RECURSIVE fim_do_texto(_, _)
fim_do_texto(text, p) ==
    IF p > Len(text) THEN p
    ELSE IF p = Len(text) /\ text[p] = LF THEN p
    ELSE IF digitos_ponto(text, p) > 0 THEN p
    ELSE fim_do_texto(text, p + 1)

\* line 74: re.findall(pattern, text, re.DOTALL) from position p on, the
\* pairs (number, text) of the matches, which do not overlap
RECURSIVE findall(_, _)
findall(text, p) ==
    IF p > Len(text) THEN <<>>
    ELSE LET n == digitos_ponto(text, p)
             s == p + n + 1
         IN  IF n > 0 /\ s <= Len(text) /\ espaco(text[s])
             THEN LET w == fim_dos_espacos(text, s)
                      e == fim_do_texto(text, w)
                  IN  <<<<SubSeq(text, p, p + n - 1), SubSeq(text, w, e - 1)>>>>
                          \o findall(text, e)
             ELSE findall(text, p + 1)

\* str.strip()
RECURSIVE strip(_)
strip(text) ==
    IF text = <<>> THEN <<>>
    ELSE IF espaco(Head(text)) THEN strip(Tail(text))
    ELSE IF espaco(text[Len(text)]) THEN strip(SubSeq(text, 1, Len(text) - 1))
    ELSE text

\* line 188: re.sub(r'\s+', ' ', text)
RECURSIVE um_espaco(_)
um_espaco(text) ==
    IF text = <<>> THEN <<>>
    ELSE IF espaco(Head(text))
    THEN <<" ">> \o um_espaco(SubSeq(text, fim_dos_espacos(text, 1), Len(text)))
    ELSE <<Head(text)>> \o um_espaco(Tail(text))

\* the number of digits from position p on
RECURSIVE quantos_digitos(_, _)
quantos_digitos(text, p) ==
    IF p <= Len(text) /\ text[p] \in Digitos THEN 1 + quantos_digitos(text, p + 1)
    ELSE 0

\* the length of the match of  palavra\s+\d+  (or \d{4} when quatro) at the
\* head of text, 0 for no match
rodape(text, palavra, ignorecase, quatro) ==
    IF /\ Len(text) > Len(palavra)
       /\ \A k \in 1..Len(palavra) :
             IF ignorecase THEN minuscula(text[k]) = minuscula(palavra[k])
             ELSE text[k] = palavra[k]
       /\ espaco(text[Len(palavra) + 1])
    THEN LET d == fim_dos_espacos(text, Len(palavra) + 1)
             n == quantos_digitos(text, d)
         IN  IF quatro THEN (IF n >= 4 THEN d + 3 ELSE 0)
             ELSE (IF n >= 1 THEN d + n - 1 ELSE 0)
    ELSE 0

\* re.sub(palavra\s+digits, '', text)
RECURSIVE sem_rodape(_, _, _, _)
sem_rodape(text, palavra, ignorecase, quatro) ==
    IF text = <<>> THEN <<>>
    ELSE LET n == rodape(text, palavra, ignorecase, quatro)
         IN  IF n > 0
             THEN sem_rodape(SubSeq(text, n + 1, Len(text)), palavra, ignorecase, quatro)
             ELSE <<Head(text)>> \o sem_rodape(Tail(text), palavra, ignorecase, quatro)

\* clean_question_text, lines 177-194
clean_question_text(text) ==
    strip(sem_rodape(sem_rodape(um_espaco(text),
                                <<"P", "U+00E1", "g", "i", "n", "a">>, TRUE, FALSE),
                     <<"U", "F", "R", "G", "S">>, FALSE, TRUE))

\* str(d) of one decimal digit
caractere(d) == CHOOSE c \in Digitos : Digito(c) = d

\* str(n) of an int n >= 0
RECURSIVE str_de_int(_)
str_de_int(n) ==
    IF n < 10 THEN <<caractere(n)>>
    ELSE str_de_int(n \div 10) \o <<caractere(n % 10)>>

\* format(n, '03d'): at least three digits, padded with zeros on the left
formato_03d(n) ==
    LET s == str_de_int(n)
    IN  [i \in 1..(3 - Len(s)) |-> "0"] \o s

\* line 97: f"day{item['day']}_q{item['number']:03d}"
question_id(day, number) ==
    <<"d", "a", "y">> \o str_de_int(day) \o <<"_", "q">> \o formato_03d(number)

\* d[k] = v on a dict kept as the sequence of its items
dict_set(d, k, v) ==
    IF \E i \in 1..Len(d) : d[i][1] = k
    THEN [i \in 1..Len(d) |-> IF d[i][1] = k THEN <<k, v>> ELSE d[i]]
    ELSE Append(d, <<k, v>>)

\* lines 76-93: the items the matches of one page add to question_sequence
itens_da_pagina(page_data, current_day_) ==
    LET matches == findall(page_data.text, 1)
        valido(match) ==
            /\ int_de(match[1]) >= 1
            /\ int_de(match[1]) <= 150
            /\ Len(clean_question_text(strip(match[2]))) > 15
        item(match) ==
            [page |-> page_data.page_num,
             number |-> int_de(match[1]),
             text |-> clean_question_text(strip(match[2])),
             day |-> current_day_,
             has_images |-> page_data.has_images,
             image_count |-> page_data.image_count]
        validos == SelectSeq(matches, valido)
    IN  [i \in 1..Len(validos) |-> item(validos[i])]

\* lines 60-93: one iteration of the first pass
passo_pagina(estado, page_data) ==
    LET dia == dia_da_pagina(estado.current_day, page_data.text)
    IN  [current_day |-> dia,
         question_sequence |->
             estado.question_sequence \o itens_da_pagina(page_data, dia)]

\* lines 55-93: the first pass over the first n pages
RECURSIVE primeira_passagem(_, _)
primeira_passagem(pages_data_, n) ==
    IF n = 0 THEN [current_day |-> 1, question_sequence |-> <<>>]
    ELSE passo_pagina(primeira_passagem(pages_data_, n - 1), pages_data_[n])

\* lines 96-107: the second pass over the first n items
RECURSIVE atribuir_ids(_, _)
atribuir_ids(question_sequence_, n) ==
    IF n = 0 THEN <<>>
    ELSE LET item == question_sequence_[n]
         IN  dict_set(atribuir_ids(question_sequence_, n - 1),
                      question_id(item.day, item.number),
                      [text |-> item.text, page |-> item.page,
                       has_images |-> item.has_images,
                       image_count |-> item.image_count])

parse_questions_with_pages(pages_data_) ==
    LET seq == primeira_passagem(pages_data_, Len(pages_data_)).question_sequence
    IN  atribuir_ids(seq, Len(seq))

\* lines 23-32: pages_data of the pages of an opened PDF
paginas_de(pages) ==
    [i \in 1..Len(pages) |->
        [page_num |-> i,
         text |-> pages[i].text,
         has_images |-> pages[i].images > 0,
         image_count |-> pages[i].images]]

\* extract_questions_from_pdf, lines 5-41: any exception gives {}
extract_questions_from_pdf(pdf_) ==
    IF ~pdf_.legivel THEN <<>>
    ELSE parse_questions_with_pages(paginas_de(pdf_.pages))

----------------------------------------------------------------------------
(* Inputs of the parser *)

MaxPaginas == 3

\* pages as pdfplumber hands them over: a page opening day 1 with two
\* questions, a page opening day 2, a page with a number above 150 and a
\* text that is too short, a page whose question 12 starts with "O dia", a
\* page with a lower-case day-1 marker, an image and footers, an empty page
Paginas == [
    dia1 |->
        [images |-> 0, text |->
            <<"1", "U+00BA", " ", "D", "I", "A", "U+000A", "0", "1", ".",
              " ", "L", "e", "i", "a", " ", "o", " ", "t", "e", "x", "t",
              "o", " ", "a", "b", "a", "i", "x", "o", ".", " ", "0", "2",
              ".", " ", "A", "s", "s", "i", "n", "a", "l", "e", " ", "a",
              " ", "a", "l", "t", "e", "r", "n", "a", "t", "i", "v", "a",
              " ", "c", "o", "r", "r", "e", "t", "a", ".">>],
    dia2 |->
        [images |-> 0, text |->
            <<"2", "U+00BA", " ", "D", "I", "A", "U+000A", "0", "1", ".",
              " ", "C", "a", "l", "c", "u", "l", "e", " ", "a", " ", "s",
              "o", "m", "a", " ", "d", "o", "s", " ", "t", "e", "r", "m",
              "o", "s", ".">>],
    limites |->
        [images |-> 0, text |->
            <<"8", "9", ".", " ", "C", "o", "n", "s", "i", "d", "e", "r",
              "e", " ", "a", "s", " ", "a", "f", "i", "r", "m", "a", "t",
              "i", "v", "a", "s", ".", " ", "1", "5", "1", ".", " ", "F",
              "o", "r", "a", " ", "d", "o", " ", "i", "n", "t", "e", "r",
              "v", "a", "l", "o", " ", "d", "e", " ", "n", "u", "m", "e",
              "r", "o", "s", ".", " ", "9", "0", ".", " ", "C", "u", "r",
              "t", "a", ".">>],
    doze |->
        [images |-> 0, text |->
            <<"1", "2", ".", " ", "O", " ", "d", "i", "a", " ", "s", "e",
              "g", "u", "i", "n", "t", "e", " ", "f", "o", "i", " ", "c",
              "h", "u", "v", "o", "s", "o", ".">>],
    rodape |->
        [images |-> 1, text |->
            <<"1", "o", " ", "d", "i", "a", "U+000A", "0", "3", ".", " ",
              "O", "b", "s", "e", "r", "v", "e", " ", "a", " ", "f", "i",
              "g", "u", "r", "a", " ", "e", " ", "r", "e", "s", "p", "o",
              "n", "d", "a", ".", " ", "U", "F", "R", "G", "S", " ", "2",
              "0", "2", "4", " ", "P", "U+00E1", "g", "i", "n", "a", " ", "3">>],
    vazia |->
        [images |-> 0, text |->
            <<>>]
]

PaginasInputs == {Paginas.dia1, Paginas.dia2, Paginas.limites, Paginas.doze,
                  Paginas.rodape, Paginas.vazia}

Pdfs == UNION {[1..n -> PaginasInputs] : n \in 0..MaxPaginas}

InitParse ==
    /\ pc = "parse_pages"
    /\ pages_data \in {paginas_de(pages) : pages \in Pdfs}
    /\ pagina = 1
    /\ current_day = 1
    /\ question_sequence = <<>>
    /\ IdleAnswer
    /\ IdleAgg
    /\ IdleStd
    /\ IdleCnt
    /\ IdleEps
    /\ IdleAdm
    /\ notas_corte = <<>>
    /\ IdleRes
    /\ IdlePar

otherVars == <<aggVars, stdVars, cntVars, epsVars, admVars, notas_corte, resVars,
               parVars>>

\* lines 60-93: the first pass takes one page
LerPagina ==
    /\ pc = "parse_pages"
    /\ pagina <= Len(pages_data)
    /\ LET estado == passo_pagina([current_day |-> current_day,
                                   question_sequence |-> question_sequence],
                                  pages_data[pagina])
       IN  /\ current_day' = estado.current_day
           /\ question_sequence' = estado.question_sequence
    /\ pagina' = pagina + 1
    /\ UNCHANGED <<pc, pages_data, answerVars, otherVars>>

\* lines 96-117: the second pass, and the return
AtribuirIds ==
    /\ pc = "parse_pages"
    /\ pagina > Len(pages_data)
    /\ questions' = atribuir_ids(question_sequence, Len(question_sequence))
    /\ pc' = "parse_done"
    /\ UNCHANGED <<parseVars, questions_type, pdf_path, pdf, output_json_path,
                   provider, api_key, model, env, llm_client, idx, answers,
                   chamadas, output, arquivo, result, otherVars>>

NextParse ==
    \/ LerPagina
    \/ AtribuirIds

SpecParse == InitParse /\ [][NextParse]_vars
----------------------------------------------------------------------------
(* LLMClient of src/llm_client.py and process_test of                        *)
(* LLMApiaAproach/pipeline.py.  Texts are sequences of one-character        *)
(* strings; provider and model names are TLA+ strings.                      *)

\* str.lower() on the provider names that are passed
provider_lower(provider_) ==
    CASE provider_ = "GEMINI" -> "gemini"
      [] provider_ = "Ollama" -> "ollama"
      [] OTHER -> provider_

\* lines 33-41: model or default_models.get(self.provider, "gpt-4o-mini")
modelo_padrao(provider_, model_) ==
    IF model_ # "" THEN model_
    ELSE CASE provider_ = "openai" -> "gpt-4o-mini"
           [] provider_ = "gemini" -> "gemini-2.0-flash"
           [] provider_ = "groq" -> "llama-3.1-70b-versatile"
           [] provider_ = "anthropic" -> "claude-3-5-sonnet-20241022"
           [] provider_ = "ollama" -> "llama3.2"
           [] OTHER -> "gpt-4o-mini"

\* the environment variable that holds a provider's API key
variavel_da_chave(provider_) ==
    CASE provider_ = "openai" -> "OPENAI_API_KEY"
      [] provider_ = "gemini" -> "GEMINI_API_KEY"
      [] provider_ = "groq" -> "GROQ_API_KEY"
      [] provider_ = "anthropic" -> "ANTHROPIC_API_KEY"

\* os.getenv(name)
getenv(env_, name) ==
    IF \E i \in 1..Len(env_.vars) : env_.vars[i][1] = name
    THEN env_.vars[CHOOSE i \in 1..Len(env_.vars) : env_.vars[i][1] = name][2]
    ELSE None

\* the truth value of a str or None
falsy(x) == x = None \/ x = <<>>

\* LLMClient(provider, api_key, model), lines 18-82: the client, or the
\* exception the constructor raises
LLMClient(provider_, api_key_, model_, env_) ==
    LET p == provider_lower(provider_)
        m == modelo_padrao(p, model_)
    IN  IF p \in {"openai", "gemini", "groq", "anthropic"}
        THEN IF p \in env_.sem_pacote
             THEN [erro |-> "ImportError", client |-> SemCliente]
             ELSE LET chave == IF falsy(api_key_)
                               THEN getenv(env_, variavel_da_chave(p))
                               ELSE api_key_
                  IN  IF falsy(chave)
                      THEN [erro |-> "ValueError", client |-> SemCliente]
                      ELSE [erro |-> "",
                            client |-> [provider |-> p, api_key |-> chave,
                                        model |-> m]]
        ELSE IF p = "ollama"
        THEN [erro |-> "",
              client |-> [provider |-> p, api_key |-> api_key_, model |-> m]]
        ELSE [erro |-> "ValueError", client |-> SemCliente]

NoAnswerProvided ==
    <<"N", "o", " ", "a", "n", "s", "w", "e", "r", " ", "p", "r", "o", "v",
      "i", "d", "e", "d">>

ErrorGettingAnswer ==
    <<"E", "r", "r", "o", "r", " ", "g", "e", "t", "t", "i", "n", "g", " ",
      "a", "n", "s", "w", "e", "r", ":", " ">>

ErrorPrefix == <<"E", "r", "r", "o", "r", ":", " ">>

\* answer.strip() if answer else "No answer provided"
strip_ou_sem_resposta(r) ==
    IF r.tipo = "texto" /\ r.texto # <<>> THEN strip(r.texto)
    ELSE NoAnswerProvided

\* _answer_openai, _answer_gemini, _answer_groq, _answer_anthropic and
\* _answer_ollama, lines 117-186: the text returned, or the exception raised,
\* when the provider's call ends as r1 and a second call would end as r2
resposta_do_provedor(provider_, r1, r2) ==
    IF provider_ = "gemini"
    THEN IF r1.tipo # "excecao"
         THEN [tipo |-> "texto", texto |-> strip_ou_sem_resposta(r1)]
         ELSE IF r2.tipo # "excecao"
         THEN [tipo |-> "texto", texto |-> strip_ou_sem_resposta(r2)]
         ELSE [tipo |-> "texto", texto |-> ErrorPrefix \o r1.texto]
    ELSE IF r1.tipo = "excecao" THEN r1
    ELSE IF provider_ = "ollama"
    THEN [tipo |-> "texto",
          texto |-> IF r1.tipo = "nenhum" THEN NoAnswerProvided ELSE strip(r1.texto)]
    ELSE [tipo |-> "texto", texto |-> strip_ou_sem_resposta(r1)]

\* the second call _answer_gemini makes when the first one raised
NaoChamado == [tipo |-> "nao_chamado", texto |-> <<>>]

segunda_chamada(provider_, r1, r2) ==
    IF provider_ = "gemini" /\ r1.tipo = "excecao" THEN r2 ELSE NaoChamado

\* answer_question, lines 84-115
answer_question(provider_, r1, r2) ==
    LET r == resposta_do_provedor(provider_, r1, r2)
    IN  IF r.tipo = "excecao" THEN ErrorGettingAnswer \o r.texto
        ELSE r.texto

QuestionUnderscore ==
    <<"q", "u", "e", "s", "t", "i", "o", "n", "_">>

\* faulty variant: the positions counted from 0
chave_da_lista_desde_zero(idx_) == QuestionUnderscore \o str_de_int(idx_ - 1)

\* line 203: f"question_{idx}"
chave_da_lista(idx_) == QuestionUnderscore \o str_de_int(idx_)

\* faulty variant: every answer stored under the key of the first question
responder_uma_sob_a_primeira(answers_, questions_type_, questions_, idx_, answer) ==
    IF questions_type_ = "list"
    THEN dict_set(answers_, QuestionUnderscore \o <<"1">>,
                  [question |-> questions_[idx_], answer |-> answer])
    ELSE dict_set(answers_, questions_[1][1],
                  [question |-> questions_[idx_][2], answer |-> answer])

\* the number of iterations of the loop that runs, lines 200-216
total_de_iteracoes(questions_type_, questions_) ==
    IF questions_type_ \in {"list", "dict"} THEN Len(questions_) ELSE 0

\* lines 200-216: one iteration of answer_multiple_questions
responder_uma(answers_, questions_type_, questions_, idx_, answer) ==
    IF questions_type_ = "list"
    THEN dict_set(answers_, chave_da_lista(idx_),
                  [question |-> questions_[idx_], answer |-> answer])
    ELSE dict_set(answers_, questions_[idx_][1],
                  [question |-> questions_[idx_][2], answer |-> answer])

\* os.path.basename
RECURSIVE basename(_)
basename(path) ==
    IF \E i \in 1..Len(path) : path[i] = "/"
    THEN basename(Tail(path))
    ELSE path

\* lines 48-56 of process_test
montar_output(pdf_path_, provider_, llm_client_, questions_, answers_) ==
    [metadata |-> [pdf_file |-> basename(pdf_path_),
                   provider |-> provider_,
                   model_used |-> llm_client_.model,
                   total_questions |-> Len(questions_)],
     answers |-> answers_]

----------------------------------------------------------------------------
(* Inputs of the LLM client and of process_test *)

MaxPerguntas == 2

\* how a call of a provider ends: a letter, a letter with whitespace around
\* it, an empty text, no text at all, an exception
Resultados ==
    {[tipo |-> "texto", texto |-> <<"A">>],
     [tipo |-> "texto", texto |-> <<" ", "B", LF>>],
     [tipo |-> "texto", texto |-> <<>>],
     [tipo |-> "nenhum", texto |-> <<>>],
     [tipo |-> "excecao", texto |-> <<"t", "i", "m", "e", "o", "u", "t">>]}

Textos ==
    {<<"2", "+", "2", "?">>, <<"C", "a", "p", "i", "t", "a", "l", "?">>}

Ids == {question_id(1, 1), question_id(2, 1), <<"7">>}

\* a list of question texts, which may repeat
Listas == UNION {[1..n -> Textos] : n \in 0..MaxPerguntas}

\* the items of a dict: the keys are distinct
Dicts ==
    UNION {{d \in [1..n -> Ids \X Textos] :
               \A i, j \in 1..n : i # j => d[i][1] # d[j][1]} :
           n \in 0..MaxPerguntas}

Clientes ==
    {LLMClient(p, <<"k">>, "", [vars |-> <<>>, sem_pacote |-> {}]).client :
        p \in {"openai", "gemini", "ollama"}}

InitAsk ==
    /\ pc = "ask_call"
    /\ llm_client \in Clientes
    /\ \/ questions_type = "dict" /\ questions \in Dicts
       \/ questions_type \in {"list", "tuple"} /\ questions \in Listas
    /\ pdf_path = <<>>
    /\ pdf = SemPdf
    /\ output_json_path = None
    /\ provider = ""
    /\ api_key = None
    /\ model = ""
    /\ env = [vars |-> <<>>, sem_pacote |-> {}]
    /\ idx = 0
    /\ answers = <<>>
    /\ chamadas = <<>>
    /\ output = SemOutput
    /\ arquivo = SemArquivo
    /\ result = Pendente
    /\ IdleParse
    /\ IdleAgg
    /\ IdleStd
    /\ IdleCnt
    /\ IdleEps
    /\ IdleAdm
    /\ notas_corte = <<>>
    /\ IdleRes
    /\ IdlePar

\* line 197: answers = {}
Comecar ==
    /\ pc = "ask_call"
    /\ answers' = <<>>
    /\ idx' = 1
    /\ pc' = "ask_loop"
    /\ UNCHANGED <<parseVars, questions, questions_type, pdf_path, pdf,
                   output_json_path, provider, api_key, model, env, llm_client,
                   chamadas, output, arquivo, result, otherVars>>

\* lines 200-216: one iteration, with the call of answer_question, whose
\* provider call ends as r1 (and a second one, if made, as r2)
Perguntar(r1, r2) ==
    /\ pc \in {"ask_loop", "pipe_asking"}
    /\ idx <= total_de_iteracoes(questions_type, questions)
    /\ answers' = responder_uma(answers, questions_type, questions, idx,
                                answer_question(llm_client.provider, r1, r2))
    /\ chamadas' = Append(chamadas,
                          [idx |-> idx, r1 |-> r1,
                           r2 |-> segunda_chamada(llm_client.provider, r1, r2)])
    /\ idx' = idx + 1
    /\ UNCHANGED <<pc, parseVars, questions, questions_type, pdf_path, pdf,
                   output_json_path, provider, api_key, model, env, llm_client,
                   output, arquivo, result, otherVars>>

\* line 218: return answers
Devolver ==
    /\ pc = "ask_loop"
    /\ idx > total_de_iteracoes(questions_type, questions)
    /\ pc' = "ask_done"
    /\ UNCHANGED <<parseVars, answerVars, otherVars>>

NextAsk ==
    \/ Comecar
    \/ \E r1, r2 \in Resultados : Perguntar(r1, r2)
    \/ Devolver

SpecAsk == InitAsk /\ [][NextAsk]_vars

\* the PDF at pdf_path: one that cannot be opened, one without pages, one
\* whose page has no text, and tests of one, two and three questions
PdfInputs ==
    {[legivel |-> FALSE, pages |-> <<>>],
     [legivel |-> TRUE, pages |-> <<>>],
     [legivel |-> TRUE, pages |-> <<Paginas.vazia>>],
     [legivel |-> TRUE, pages |-> <<Paginas.limites>>],
     [legivel |-> TRUE, pages |-> <<Paginas.dia1>>],
     [legivel |-> TRUE, pages |-> <<Paginas.dia1, Paginas.dia2>>]}

PdfPath ==
    <<"p", "r", "o", "v", "a", "s", "/", "d", "i", "a", "1", ".", "p", "d",
      "f">>

JsonPath ==
    <<"o", "u", "t", "/", "a", "n", "s", "w", "e", "r", "s", ".", "j", "s",
      "o", "n">>

\* the environment: no key set, the Gemini key set, the Gemini key set to
\* the empty string, the openai package not installed
EnvInputs ==
    {[vars |-> <<>>, sem_pacote |-> {}],
     [vars |-> <<<<"GEMINI_API_KEY", <<"e", "n", "v">>>>>>, sem_pacote |-> {}],
     [vars |-> <<<<"GEMINI_API_KEY", <<>>>>>>, sem_pacote |-> {}],
     [vars |-> <<>>, sem_pacote |-> {"openai"}]}

\* process_test(pdf_path) and process_test(pdf_path, output_json_path, ...)
InitPipe ==
    /\ pc = "pipe_call"
    /\ pdf_path = PdfPath
    /\ pdf \in PdfInputs
    /\ output_json_path \in {None, JsonPath}
    /\ provider \in {"gemini", "GEMINI", "openai", "ollama", "llama"}
    /\ api_key \in {None, <<"k">>}
    /\ model \in {"", "gemini-1.5-pro"}
    /\ env \in EnvInputs
    /\ questions = <<>>
    /\ questions_type = "dict"
    /\ llm_client = SemCliente
    /\ idx = 0
    /\ answers = <<>>
    /\ chamadas = <<>>
    /\ output = SemOutput
    /\ arquivo = SemArquivo
    /\ result = Pendente
    /\ IdleParse
    /\ IdleAgg
    /\ IdleStd
    /\ IdleCnt
    /\ IdleEps
    /\ IdleAdm
    /\ notas_corte = <<>>
    /\ IdleRes
    /\ IdlePar

Retorna(tipo) == [tipo |-> tipo, valor |-> SemOutput]

\* the call and step 1, lines 7-30: a call without output_json_path raises
\* TypeError before the body runs
Extrair ==
    /\ pc = "pipe_call"
    /\ IF output_json_path = None
       THEN /\ result' = Retorna("TypeError")
            /\ pc' = "pipe_raised"
            /\ UNCHANGED questions
       ELSE /\ questions' = extract_questions_from_pdf(pdf)
            /\ IF questions' = <<>>
               THEN result' = Retorna("None") /\ pc' = "pipe_returned"
               ELSE result' = result /\ pc' = "pipe_extracted"
    /\ UNCHANGED <<parseVars, questions_type, pdf_path, pdf, output_json_path,
                   provider, api_key, model, env, llm_client, idx, answers,
                   chamadas, output, arquivo, otherVars>>

\* step 2, lines 36-41, and the entry of answer_multiple_questions
Inicializar ==
    /\ pc = "pipe_extracted"
    /\ LET c == LLMClient(provider, api_key, model, env)
       IN  CASE c.erro = "" ->
                  /\ llm_client' = c.client
                  /\ answers' = <<>>
                  /\ idx' = 1
                  /\ pc' = "pipe_asking"
                  /\ UNCHANGED result
             [] c.erro = "ValueError" ->
                  /\ result' = Retorna("None")
                  /\ pc' = "pipe_returned"
                  /\ UNCHANGED <<llm_client, answers, idx>>
             [] OTHER ->
                  /\ result' = Retorna(c.erro)
                  /\ pc' = "pipe_raised"
                  /\ UNCHANGED <<llm_client, answers, idx>>
    /\ UNCHANGED <<parseVars, questions, questions_type, pdf_path, pdf,
                   output_json_path, provider, api_key, model, env, chamadas,
                   output, arquivo, otherVars>>

\* steps 4 and 5, lines 48-68: the output is built and written; open or
\* json.dump may raise
Salvar(desfecho) ==
    /\ pc = "pipe_asking"
    /\ idx > total_de_iteracoes(questions_type, questions)
    /\ output' = montar_output(pdf_path, provider, llm_client, questions, answers)
    /\ arquivo' =
          CASE desfecho = "ok" -> [escrito |-> "completo", conteudo |-> output']
            [] desfecho = "dump" -> [escrito |-> "parcial", conteudo |-> SemOutput]
            [] OTHER -> arquivo
    /\ result' = IF desfecho = "ok" THEN [tipo |-> "dict", valor |-> output']
                 ELSE Retorna("None")
    /\ pc' = "pipe_returned"
    /\ UNCHANGED <<parseVars, questions, questions_type, pdf_path, pdf,
                   output_json_path, provider, api_key, model, env, llm_client,
                   idx, answers, chamadas, otherVars>>

NextPipe ==
    \/ Extrair
    \/ Inicializar
    \/ \E r1, r2 \in Resultados : Perguntar(r1, r2)
    \/ \E desfecho \in {"ok", "open", "dump"} : Salvar(desfecho)

SpecPipe == InitPipe /\ [][NextPipe]_vars
----------------------------------------------------------------------------
(* Properties of the aggregator *)

Aggregated == pc \in {"agg_done", "agg_rescaled"}

\* the subject a weight key stands for, as the specification states it
SubjectOfKey(abrev) ==
    CASE abrev = "POR" -> "portugues_redacao"
      [] abrev = "LIT" -> "literatura"
      [] abrev = "GEO" -> "geografia"
      [] abrev = "HIS" -> "historia"
      [] abrev = "BIO" -> "biologia"
      [] abrev = "FIS" -> "fisica"
      [] abrev = "QUI" -> "quimica"
      [] abrev = "MAT" -> "matematica"
      [] abrev = "LIN" -> "lingua_estrangeira"
      [] OTHER -> ""

\* the weight keys that are not the metadata key
Scoring(t) == {i \in 1..Len(t) : t[i][1] # "total"}

RECURSIVE SumWeights(_, _)
SumWeights(t, I) ==
    IF I = {} THEN Zero
    ELSE LET i == CHOOSE x \in I : TRUE
         IN  RAdd(R(t[i][2]), SumWeights(t, I \ {i}))

RECURSIVE SumInverses(_, _, _)
SumInverses(e, t, I) ==
    IF I = {} THEN Zero
    ELSE LET i == CHOOSE x \in I : TRUE
         IN  RAdd(RDiv(R(t[i][2]), e[SubjectOfKey(t[i][1])]),
                  SumInverses(e, t, I \ {i}))

C1_Precondition ==
    /\ \A i \in Scoring(pesos) :
          /\ SubjectOfKey(pesos[i][1]) \in DOMAIN eps
          /\ RPos(eps[SubjectOfKey(pesos[i][1])])
    /\ \E i \in Scoring(pesos) : pesos[i][2] > 0

C1_Example ==
    /\ pesos = <<<<"MAT", 2>>, <<"POR", 1>>>>
    /\ "matematica" \in DOMAIN eps /\ eps["matematica"] = R(600)
    /\ "portugues_redacao" \in DOMAIN eps /\ eps["portugues_redacao"] = R(500)

\* C1: when every weight key other than `total` is a known abbreviation whose
\* subject has a positive score and some weight is positive,
\* calcular_media_harmonica_ponderada returns (sum of weights) / (sum of
\* weight_i / score_i) over the keys other than `total`, the POR weight being
\* applied to portugues_redacao; {MAT: 2, POR: 1} with 600 and 500 gives 562.5.
C1_WeightedHarmonicMean ==
    Aggregated =>
        /\ C1_Precondition =>
              mh = RDiv(SumWeights(pesos, Scoring(pesos)),
                        SumInverses(eps, pesos, Scoring(pesos)))
        /\ C1_Example => mh = <<1125, 2>>

C1_Witness ==
    /\ pc = "agg_done"
    /\ C1_Example
    /\ "portugues" \in DOMAIN eps /\ eps["portugues"] = R(300)
    /\ mh = <<1125, 2>>

\* the weight keys that contribute a term: known abbreviations
Contributing(t) == {i \in Scoring(t) : SubjectOfKey(t[i][1]) # ""}

ScoreOrDefault(e, m) == IF m \in DOMAIN e THEN e[m] ELSE R(500)

\* C2: calcular_media_harmonica_ponderada returns 0.0 whenever some
\* contributing subject's score is <= 0, whatever its weight and wherever its
\* key stands in the table, and whenever no weight key contributes.
C2_ZeroOnNonPositiveOrEmpty ==
    Aggregated =>
        /\ (\E i \in Contributing(pesos) :
               RLe(ScoreOrDefault(eps, SubjectOfKey(pesos[i][1])), Zero))
              => mh = Zero
        /\ Contributing(pesos) = {} => mh = Zero

\* a non-positive score met last, with weight 0, after a positive term
C2_Witness ==
    /\ pc = "agg_done"
    /\ pesos = <<<<"POR", 2>>, <<"total", 1>>, <<"MAT", 0>>>>
    /\ "matematica" \in DOMAIN eps /\ eps["matematica"] = R(-100)
    /\ "portugues_redacao" \in DOMAIN eps /\ eps["portugues_redacao"] = R(600)
    /\ mh = Zero

With500(e, m) == [x \in DOMAIN e \cup {m} |-> IF x = m THEN R(500) ELSE e[x]]

\* C3: a weighted subject with no score entry is not omitted: the result is
\* the one obtained with that subject's score explicitly 500, in both
\* aggregation loops.
C3_MissingSubjectIs500 ==
    Aggregated =>
        /\ \A i \in Contributing(pesos) :
              SubjectOfKey(pesos[i][1]) \notin DOMAIN eps =>
                  mh = calcular_media_harmonica_ponderada(
                           With500(eps, SubjectOfKey(pesos[i][1])), pesos)
        /\ \A i \in Scoring(pesos) :
              pesos[i][1] \notin DOMAIN eps =>
                  ac = ac_media_harmonica(With500(eps, pesos[i][1]), pesos)

\* matematica is missing: 2 / (1/500 + 1/600), not the 600 of omitting it
C3_Witness ==
    /\ pc = "agg_done"
    /\ pesos = <<<<"MAT", 1>>, <<"POR", 1>>>>
    /\ DOMAIN eps = {"portugues_redacao"}
    /\ eps["portugues_redacao"] = R(600)
    /\ mh = <<6000, 11>>
    /\ ac = R(500)

\* C4: multiplying every weight of the program (every key except `total`) by
\* the same positive constant leaves the aggregation result unchanged.
C4_ScaleInvariant ==
    pc = "agg_rescaled" => mh = mh_antes

C4_Witness ==
    /\ pc = "agg_rescaled"
    /\ fator = 2
    /\ pesos = <<<<"MAT", 4>>, <<"total", 1>>, <<"POR", 2>>>>
    /\ mh = <<1125, 2>>
    /\ mh_antes = <<1125, 2>>

----------------------------------------------------------------------------
(* Properties of the standardizer *)

Standardized == pc \in {"std_done", "std_larger"}

\* the statistics record of the subject: the merged foreign-language subject
\* is measured against the ingles statistics
StatsKeyOf(m) == IF m = "lingua_estrangeira" THEN "ingles" ELSE m

HasStats == StatsKeyOf(materia) \in DOMAIN estatisticas

StatsOf == estatisticas[StatsKeyOf(materia)]

TableOf == IF HasStats /\ "escores" \in DOMAIN StatsOf THEN StatsOf["escores"] ELSE <<>>

TableHas(n) == \E i \in 1..Len(TableOf) : TableOf[i].acertos = n

HasMeanAndDeviation ==
    HasStats /\ "media" \in DOMAIN StatsOf /\ "desvio_padrao" \in DOMAIN StatsOf

LinearScore(n) ==
    RAdd(RMul(RDiv(RSub(R(n), StatsOf["media"]), StatsOf["desvio_padrao"]), R(100)),
         R(500))

\* C5: if the subject's score table has an entry for the raw count,
\* obter_ep_por_acertos returns that entry's ep whatever the mean and standard
\* deviation are; with no such entry (and a positive standard deviation, where
\* the formula is defined) it returns ((count - mean) / std_dev) * 100 + 500.
C5_TableThenFormula ==
    Standardized =>
        /\ \A i \in 1..Len(TableOf) :
              TableOf[i].acertos = acertos => ep = TableOf[i].ep
        /\ (~TableHas(acertos) /\ HasMeanAndDeviation
               /\ RPos(StatsOf["desvio_padrao"]))
              => ep = LinearScore(acertos)

\* the table's second entry is returned although the formula would give 550
C5_Witness ==
    /\ pc = "std_done"
    /\ materia = "lingua_estrangeira"
    /\ acertos = 3
    /\ HasMeanAndDeviation
    /\ StatsOf["media"] = R(2) /\ StatsOf["desvio_padrao"] = R(2)
    /\ Len(TableOf) = 2
    /\ TableOf[2] = [acertos |-> 3, ep |-> R(900)]
    /\ ep = R(900)

ZeroDeviation ==
    HasStats /\ "desvio_padrao" \in DOMAIN StatsOf /\ StatsOf["desvio_padrao"] = Zero

\* C6 as stated: with std_dev = 0 both standardizers return exactly 500 for
\* any raw count and any other content of the record, score table included.
C6_Original_ZeroDeviationAlways500 ==
    (Standardized /\ ZeroDeviation) => (ep = R(500) /\ ep_ac = R(500))

\* C6 (amended): with std_dev = 0, calcular_escore_padronizado returns exactly
\* 500, and obter_ep_por_acertos returns exactly 500 unless the score table
\* has an entry for the raw count, which it then returns; neither divides by
\* zero.
C6_ZeroDeviation500UnlessTabled ==
    (Standardized /\ ZeroDeviation) =>
        /\ ep_ac = R(500)
        /\ ~TableHas(acertos) => ep = R(500)
        /\ \A i \in 1..Len(TableOf) :
              TableOf[i].acertos = acertos => ep = TableOf[i].ep
        /\ IsNumber(ep) /\ IsNumber(ep_ac)

\* a table is present, but not for this raw count
C6_Witness ==
    /\ pc = "std_done"
    /\ ZeroDeviation
    /\ acertos = 3
    /\ Len(TableOf) = 1 /\ TableOf[1].acertos = 1
    /\ "media" \in DOMAIN StatsOf /\ StatsOf["media"] = R(1)
    /\ ep = R(500)
    /\ ep_ac = R(500)

PositiveDeviation ==
    HasStats /\ "desvio_padrao" \in DOMAIN StatsOf /\ RPos(StatsOf["desvio_padrao"])

\* C7 as stated: for every record with std_dev > 0 and a < b the score
\* returned for a is strictly less than the one returned for b.
C7_Original_StrictlyIncreasing ==
    (pc = "std_larger" /\ PositiveDeviation) =>
        (RLt(ep_antes, ep) /\ RLt(ep_ac_antes, ep_ac))

\* C7 (amended): for every record with std_dev > 0 and a < b,
\* calcular_escore_padronizado returns strictly less for a than for b, and so
\* does obter_ep_por_acertos when the score table has no entry for a or for b.
C7_StrictlyIncreasingOffTable ==
    (pc = "std_larger" /\ PositiveDeviation) =>
        /\ RLt(ep_ac_antes, ep_ac)
        /\ (~TableHas(acertos_antes) /\ ~TableHas(acertos)) => RLt(ep_antes, ep)

C7_Witness ==
    /\ pc = "std_larger"
    /\ PositiveDeviation
    /\ acertos_antes = 1 /\ acertos = 2
    /\ Len(TableOf) = 1 /\ TableOf[1].acertos = 3
    /\ "media" \in DOMAIN StatsOf /\ StatsOf["media"] = R(2)
    /\ ep_antes = R(450) /\ ep = R(500)
    /\ ep_ac_antes = R(450) /\ ep_ac = R(500)

\* C8: a subject with no entry in the subject statistics gets the neutral
\* value 500 as its standardized score, for every raw correct count.
C8_MissingStatisticIs500 ==
    (Standardized /\ ~HasStats) => (ep = R(500) /\ ep_ac = R(500))

----------------------------------------------------------------------------
(* Properties of the subject map and of the scorer *)

Scored == pc = "cnt_scored"

Mapa == mapeamento.mapa

QuestionSet(m) == {Mapa[m][i] : i \in 1..Len(Mapa[m])}

\* no question number is listed twice, in one subject or in two
NonOverlapping ==
    /\ \A m \in DOMAIN Mapa :
          \A i, j \in 1..Len(Mapa[m]) : i # j => Mapa[m][i] # Mapa[m][j]
    /\ \A m, n \in DOMAIN Mapa : m # n => QuestionSet(m) \cap QuestionSet(n) = {}

CorrectSet(prova) ==
    IF prova \in DOMAIN results_llm
    THEN {results_llm[prova]["iguais"][i] :
             i \in 1..Len(results_llm[prova]["iguais"])}
    ELSE {}

\* the tally the fixed-ceiling rule gives a subject
CeilingTally(m) ==
    Cardinality({q \in QuestionSet(m) : q <= 60 /\ q \in CorrectSet("PRIMEIRA_PROVA")})
    + Cardinality({q \in QuestionSet(m) : q > 60 /\ q \in CorrectSet("SEGUNDA_PROVA")})

\* C9: for every subject map with non-overlapping ranges and every candidate,
\* contar_acertos_por_materia (in both scripts) gives each subject the number
\* of its questions q <= 60 in the first-day correct set plus the number of
\* its questions q > 60 in the second-day correct set.
C9_TallyByFixedCeiling ==
    (Scored /\ NonOverlapping) =>
        \A m \in DOMAIN Mapa :
            /\ acertos_mh[m] = CeilingTally(m)
            /\ acertos_ac[m] = CeilingTally(m)

\* C9, the part the cursos script satisfies: its tallies are those of the
\* fixed-ceiling rule.
C9_TallyOfCursosScript ==
    (Scored /\ NonOverlapping) =>
        \A m \in DOMAIN Mapa : acertos_mh[m] = CeilingTally(m)

\* C9, the part the AC script satisfies: its tallies are those of the
\* fixed-ceiling rule when no question number is below 1.
C9_TallyOfACScriptFromOne ==
    (Scored /\ NonOverlapping /\ \A m \in DOMAIN Mapa : \A q \in QuestionSet(m) : q >= 1) =>
        \A m \in DOMAIN Mapa : acertos_ac[m] = CeilingTally(m)

C10_Structure == info.dia_1 = <<Item("Matematica", Str_61_90)>>

\* C10 as stated: matematica = questions 61-90 listed under day 1, mean 15,
\* std_dev 5, day-1 correct set {61..75}: 15 matches are counted for
\* matematica and its standardized score is 500.
C10_Original_Day1Matches ==
    (Scored /\ C10_Structure
        /\ CorrectSet("PRIMEIRA_PROVA") = 61..75
        /\ CorrectSet("SEGUNDA_PROVA") \cap (61..90) = {})
    => (acertos_mh["matematica"] = 15 /\ eps["matematica"] = R(500))

\* C10 (amended): with the same structure and statistics and a candidate whose
\* second-day correct set is {61..75}, 15 matches are counted for matematica
\* and its standardized score is 500.
C10_Day2Matches ==
    (Scored /\ C10_Structure /\ CorrectSet("SEGUNDA_PROVA") = 61..75)
    => (acertos_mh["matematica"] = 15 /\ eps["matematica"] = R(500))

C10_Witness ==
    /\ Scored
    /\ C10_Structure
    /\ CorrectSet("PRIMEIRA_PROVA") = {1, 60}
    /\ CorrectSet("SEGUNDA_PROVA") = 61..75
    /\ Len(Mapa["matematica"]) = 30
    /\ acertos_mh["matematica"] = 15
    /\ eps["matematica"] = R(500)

----------------------------------------------------------------------------
(* C11: the two foreign-language tracks are merged *)

LE == "lingua_estrangeira"

IsTrack(item) == item.materia \in {"Ingles", "Espanhol"}

\* the question numbers the day-2 structure lists under a track
TrackQuestions ==
    UNION {LET r == inicio_fim(info.dia_2[i].questoes)
           IN  IF r = <<>> THEN {} ELSE r[1]..r[2] :
           i \in {j \in 1..Len(info.dia_2) : IsTrack(info.dia_2[j])}}

NotTrack(item) == ~IsTrack(item)

\* the structure without its track entries
InfoSemLinguas == [info EXCEPT !.dia_2 = SelectSeq(info.dia_2, NotTrack)]

TrackCorrectByCeiling ==
    {q \in TrackQuestions :
        \/ q <= 60 /\ q \in CorrectSet("PRIMEIRA_PROVA")
        \/ q > 60 /\ q \in CorrectSet("SEGUNDA_PROVA")}

----------------------------------------------------------------------------
(* C12: ranges that run backwards, questions claimed twice *)

Mapped == pc \in {"cnt_mapped", "cnt_failed", "cnt_scored"}

\* the entries of the structure, each with the key its day files it under
Entradas ==
    {[chave |-> chave_dia1(info.dia_1[i]), questoes |-> info.dia_1[i].questoes] :
        i \in 1..Len(info.dia_1)}
    \cup
    {[chave |-> chave_dia2(info.dia_2[i]), questoes |-> info.dia_2[i].questoes] :
        i \in 1..Len(info.dia_2)}

Intervalo(e) ==
    LET r == inicio_fim(e.questoes)
    IN  IF r = <<>> THEN {} ELSE r[1]..r[2]

BackwardRange ==
    \E e \in Entradas :
        inicio_fim(e.questoes) # <<>>
        /\ inicio_fim(e.questoes)[1] > inicio_fim(e.questoes)[2]

ClaimedByTwoSubjects ==
    \E e, f \in Entradas :
        e.chave # f.chave /\ Intervalo(e) \cap Intervalo(f) # {}

\* C12: whenever some range of the structure has its start above its end, or
\* some question number is listed by two different subjects, building the
\* subject map ends in an error and gives no map.
C12_FailsOnBackwardOrShared ==
    (Mapped /\ (BackwardRange \/ ClaimedByTwoSubjects)) => mapeamento.erro # ""

----------------------------------------------------------------------------
(* C13: a weight key that names no subject *)

UnknownKey(t) == \E i \in Scoring(t) : SubjectOfKey(t[i][1]) = ""

\* C13: when the weight table holds a key other than total that names no
\* subject, calcular_media_harmonica_ponderada ends in an error and returns
\* no score.
C13_UnknownKeyIsFatal ==
    (Aggregated /\ UnknownKey(pesos)) => ~IsNumber(mh)
----------------------------------------------------------------------------
(* C14: the essay is averaged into portugues_redacao *)

EpsDone == pc = "eps_done"

\* the essay on the standardized scale: 500 + 100 * (nota - 6) / 2
Writing == RAdd(R(200), RMul(R(50), nota_redacao))

Mean2(a, b) == RMul(RAdd(a, b), <<1, 2>>)

\* C14: calcular_eps_por_materia standardizes the essay with mean 6.0 and
\* deviation 2.0 and sets portugues_redacao to the arithmetic mean of that
\* score and the standardized portugues score, or to the essay score alone
\* when the tallies hold no portugues; every subject of the tallies, portugues
\* included, keeps the score obter_ep_por_acertos gives it.  Lines 157-167
\* of calcular_ac_para_curso combine the essay in the same way with the
\* portugues score that function computed, if it computed one.
C14_EssayAveragedIntoPortugues ==
    EpsDone =>
        /\ DOMAIN eps = DOMAIN acertos_mh \cup {"portugues_redacao"}
        /\ eps["portugues_redacao"] =
              IF "portugues" \in DOMAIN acertos_mh
              THEN Mean2(eps["portugues"], Writing)
              ELSE Writing
        /\ \A m \in DOMAIN acertos_mh :
              eps[m] = obter_ep_por_acertos(estatisticas, m, acertos_mh[m])
        /\ escores_ac["portugues_redacao"] =
              IF "portugues" \in DOMAIN escores_ac
              THEN Mean2(escores_ac["portugues"], Writing)
              ELSE Writing
        /\ \A m \in DOMAIN escores_ac \ {"portugues_redacao"} :
              escores_ac[m] = ac_escore_padronizado(estatisticas, m, acertos_mh[m])
        /\ "portugues" \notin DOMAIN acertos_mh => "portugues" \notin DOMAIN escores_ac

\* the essay of 9.98 (699) averaged with a tabled portugues score of 900
C14_Witness ==
    /\ EpsDone
    /\ nota_redacao = nota_redacao_main
    /\ "portugues" \in DOMAIN acertos_mh
    /\ eps["portugues"] = R(900)
    /\ eps["portugues_redacao"] = <<1599, 2>>
    /\ "matematica" \in DOMAIN eps
----------------------------------------------------------------------------
(* C15: the cutoff resolver *)

Resolved == pc = "res_done"

InAliasTable(nome) ==
    \E i \in 1..Len(mapeamento_especial) : mapeamento_especial[i][1] = nome

AliasOf(nome) ==
    mapeamento_especial[CHOOSE i \in 1..Len(mapeamento_especial) :
                            mapeamento_especial[i][1] = nome][2]

\* a occurs in k as a run of consecutive characters
Contains(a, k) ==
    \E d \in 0..Len(k) :
        d + Len(a) <= Len(k) /\ \A j \in 1..Len(a) : k[d + j] = a[j]

\* no cutoff can be found for the name
Unavailable(nome, tabela) ==
    \/ ~InAliasTable(nome)
    \/ AliasOf(nome) = None
    \/ \A i \in 1..Len(tabela) : ~Contains(AliasOf(nome), tabela[i][1])

\* C15: mapear_curso_nota_corte returns (None, None) exactly when the short
\* name is not in the alias table, or its alias is None, or no key of the
\* cutoff table contains the alias as a substring; otherwise it returns a key
\* of the table that contains the alias, with the cutoff stored under it.
C15_NoneExactlyInThreeCases ==
    Resolved =>
        /\ resolvido = <<None, None>> <=> Unavailable(nome_curso, notas_corte)
        /\ ~Unavailable(nome_curso, notas_corte) =>
              \E i \in 1..Len(notas_corte) :
                  /\ resolvido = <<notas_corte[i][1], notas_corte[i][2]>>
                  /\ Contains(AliasOf(nome_curso), notas_corte[i][1])

\* the alias found in the middle of a longer key, behind a key without it
C15_Witness ==
    /\ Resolved
    /\ nome_curso = Nomes.danca
    /\ Len(notas_corte) = 2
    /\ notas_corte[1][1] = Chaves.quimica_industrial
    /\ resolvido = <<Chaves.licenciatura_danca, R(500)>>

----------------------------------------------------------------------------
(* C16 to C19: the admission evaluator *)

Analysed == pc \in {"adm_analysed", "adm_summarised"}

Summarised == pc = "adm_summarised"

Programs == {catalogo[i] : i \in 1..Len(catalogo)}

Times(lista, c) == Cardinality({i \in 1..Len(lista) : lista[i][1] = c})

\* the cutoff of a program that has one
CutoffOf(c) ==
    LET i == CHOOSE j \in 1..Len(notas_corte) :
                 /\ Contains(AliasOf(c), notas_corte[j][1])
                 /\ \A k \in 1..(j - 1) : ~Contains(AliasOf(c), notas_corte[k][1])
    IN  notas_corte[i][2]

\* C16: every program of the catalog is listed as admitted exactly when its
\* cutoff can be resolved and the score is >= the cutoff, as rejected exactly
\* when it can be resolved and the score is below it, and as without cutoff
\* exactly when it cannot be resolved, for every cutoff of the table, 0
\* included.
C16_ClassifiedByResolvedCutoff ==
    Analysed =>
        \A c \in Programs :
            LET resolvable == ~Unavailable(c, notas_corte)
            IN  /\ Times(aprovados, c) > 0 <=>
                      (resolvable /\ RLe(CutoffOf(c), mh_cursos[c]))
                /\ Times(reprovados, c) > 0 <=>
                      (resolvable /\ RLt(mh_cursos[c], CutoffOf(c)))
                /\ Times(sem_nota_corte, c) > 0 <=> ~resolvable

\* C17: after one candidate is evaluated every program of the catalog is in
\* exactly one of the three lists, once, the lists hold nothing else, and a
\* program whose alias no key of the cutoff table contains is in the list
\* without cutoff.
C17_ExactlyOnePartition ==
    Analysed =>
        /\ \A c \in Programs :
              /\ Times(aprovados, c) + Times(reprovados, c)
                    + Times(sem_nota_corte, c) = 1
              /\ Unavailable(c, notas_corte) => Times(sem_nota_corte, c) = 1
        /\ Len(aprovados) + Len(reprovados) + Len(sem_nota_corte) = Len(catalogo)

\* one program admitted, and one that has an alias no key contains
C17_Witness ==
    /\ Analysed
    /\ Len(aprovados) = 1
    /\ \E c \in Programs :
          /\ InAliasTable(c)
          /\ AliasOf(c) # None
          /\ Unavailable(c, notas_corte)
          /\ Len(notas_corte) > 0
          /\ Times(sem_nota_corte, c) = 1

Margin(linha) == RSub(linha[3], linha[4])

\* C18: the admitted programs are listed with non-increasing margin (score
\* minus cutoff), the rejected ones with non-decreasing absolute difference
\* between score and cutoff.
C18_ListsOrdered ==
    Analysed =>
        /\ \A i, j \in 1..Len(aprovados) :
              i < j => RLe(Margin(aprovados[j]), Margin(aprovados[i]))
        /\ \A i, j \in 1..Len(reprovados) :
              i < j => RLe(RAbs(Margin(reprovados[i])), RAbs(Margin(reprovados[j])))

\* three admitted programs that the order of the names lists differently,
\* and seven rejected ones
C18_Witness ==
    /\ Analysed
    /\ Len(aprovados) = 3
    /\ aprovados[1][1] = Nomes.danca
    /\ aprovados[2][1] = Nomes.biomedicina
    /\ aprovados[3][1] = Nomes.geologia
    /\ Len(reprovados) = 7
    /\ reprovados[1][1] = Nomes.jornalismo

\* C19 as stated: the rate is admitted / (admitted + rejected), 0 when that
\* denominator is 0, and the final summary counts what the statistics block
\* counts.
C19_Original_RateIsFraction ==
    Summarised =>
        LET a == Len(aprovados)
            r == Len(reprovados)
        IN  /\ taxa_aprovacao = IF a + r = 0 THEN Zero ELSE RDiv(R(a), R(a + r))
            /\ aprovados_count = a
            /\ total_count = a + r

\* the programs the evaluator found a cutoff for, in the order of the catalog
ComNota(c) == Times(sem_nota_corte, c) = 0

\* C19 (amended): the rate is the percentage 100 * admitted / (admitted +
\* rejected) and is not computed when that denominator is 0; it is the rate
\* the catalog without its programs without cutoff gives; the final summary
\* counts the same admitted and total numbers and computes the same rate.
C19_RateIsPercentage ==
    Summarised =>
        LET a == Len(aprovados)
            r == Len(reprovados)
            resto == classificar_todos(sorted_cursos(SelectSeq(catalogo, ComNota)),
                                       mh_cursos, notas_corte)
        IN  /\ taxa_aprovacao =
                  IF a + r = 0 THEN NotComputed ELSE Norm(100 * a, a + r)
            /\ taxa_aprovacao =
                  taxa_de_aprovacao(Len(resto.aprovados),
                                    Len(resto.aprovados) + Len(resto.reprovados))
            /\ aprovados_count = a
            /\ total_count = a + r
            /\ taxa = taxa_aprovacao

\* 3 admitted, 7 rejected, 5 without cutoff: 30 per cent
C19_Witness ==
    /\ Summarised
    /\ Len(aprovados) = 3
    /\ Len(reprovados) = 7
    /\ Len(sem_nota_corte) = 5
    /\ taxa_aprovacao = R(30)
    /\ aprovados_count = 3
    /\ total_count = 10
----------------------------------------------------------------------------
(* C20: no state is kept between evaluations *)

Pairs == Llms \X DOMAIN pesos_cursos

\* the score and the verdict of a pair evaluated by itself
ScoreAlone(par) ==
    calcular_media_harmonica_ponderada(
        calcular_eps_por_materia(
            contar_acertos_por_materia(results[par[1]], mapeamento.mapa),
            estatisticas, nota_redacao_main),
        pesos_cursos[par[2]])

VerdictAlone(par) == veredicto(par[2], ScoreAlone(par), notas_corte)

AsAlone ==
    /\ \A par \in DOMAIN llm_resultados :
          llm_resultados[par] # NotComputed => llm_resultados[par] = ScoreAlone(par)
    /\ \A par \in DOMAIN veredictos : veredictos[par] = VerdictAlone(par)

ReferenceDataKept ==
    UNCHANGED <<results, pesos_cursos, notas_corte, estatisticas, mapeamento, info>>

\* C20: whatever the order and the interleaving in which the pairs
\* (candidate, program) are evaluated, every pair gets the score and the
\* verdict it gets when it is evaluated alone, and no step changes the
\* weights, the cutoff table, the statistics, the subject map or a
\* candidate's answer set.
C20_EvaluationsIndependent == [](AsAlone) /\ [][ReferenceDataKept]_vars

\* a pair is through while a call for the same candidate and a call for the
\* other candidate are both in the middle of their loops
C20_Witness ==
    /\ pc = "par"
    /\ <<"llm_a", Nomes.danca>> \in DOMAIN veredictos
    /\ <<"llm_a", Nomes.quimica>> \in DOMAIN quadros
    /\ quadros[<<"llm_a", Nomes.quimica>>].i = 2
    /\ <<"llm_b", Nomes.danca>> \in DOMAIN quadros
    /\ quadros[<<"llm_b", Nomes.danca>>].i = 2
    /\ results["llm_a"] # results["llm_b"]
----------------------------------------------------------------------------
(* C22: a non-positive score in the aggregation loop of the AC script *)

\* C22: the aggregation loop of calcular_ac_para_curso yields 0 whenever a
\* weight key other than total has a standardized score <= 0.
C22_ACZeroOnNonPositive ==
    Aggregated =>
        ((\E i \in Scoring(pesos) :
             RLe(ScoreOrDefault(eps, pesos[i][1]), Zero)) => ac = Zero)
----------------------------------------------------------------------------
(* C23: the alias found in more than one key *)

Matches(nome, tabela) ==
    {i \in 1..Len(tabela) : Contains(AliasOf(nome), tabela[i][1])}

Ambiguous(nome, tabela) ==
    /\ InAliasTable(nome)
    /\ AliasOf(nome) # None
    /\ Cardinality(Matches(nome, tabela)) > 1

First(S) == CHOOSE i \in S : \A j \in S : i <= j

\* C23: when more than one key of the cutoff table contains the alias,
\* mapear_curso_nota_corte returns the first such key in the table's
\* iteration order with the cutoff stored under it, never a later one.
C23_FirstMatchWins ==
    (Resolved /\ Ambiguous(nome_curso, notas_corte)) =>
        LET i == First(Matches(nome_curso, notas_corte))
        IN  resolvido = <<notas_corte[i][1], notas_corte[i][2]>>

\* both keys hold the alias of Quimica, with different cutoffs
C23_Witness ==
    /\ Resolved
    /\ nome_curso = Nomes.quimica
    /\ notas_corte = <<<<Chaves.quimica_bacharelado, R(600)>>,
                       <<Chaves.quimica_vale, R(500)>>>>
    /\ resolvido = <<Chaves.quimica_bacharelado, R(600)>>
----------------------------------------------------------------------------
(* C24: the order of the programs without an available cutoff *)

Position(lista, c) == CHOOSE i \in 1..Len(lista) : lista[i] = c

SemNotaNames == [i \in 1..Len(sem_nota_corte) |-> sem_nota_corte[i][1]]

\* C24 as stated: two programs without an available cutoff stand in
\* sem_nota_corte in the order in which the weight catalog lists them.
C24_Original_CatalogOrder ==
    Analysed =>
        \A i, j \in 1..Len(SemNotaNames) :
            Position(catalogo, SemNotaNames[i]) < Position(catalogo, SemNotaNames[j])
                => i < j

\* C24: the programs without an available cutoff are listed in increasing
\* order of their short names, compared code point by code point, whatever
\* the order of the weight catalog.
C24_UnavailableInNameOrder ==
    Analysed =>
        \A i, j \in 1..Len(SemNotaNames) :
            i < j => str_menor(SemNotaNames[i], SemNotaNames[j])

\* the catalog lists Musica before Medicina, the list has them the other way
C24_Witness ==
    /\ Analysed
    /\ catalogo = <<Nomes.musica, Nomes.medicina>>
    /\ SemNotaNames = <<Nomes.medicina, Nomes.musica>>
----------------------------------------------------------------------------
(* C25: the margin of a verdict *)

\* the line of a verdict holds the program's score and its resolved cutoff,
\* and their difference as the margin
MarginIsDifference(linha) ==
    /\ linha[3] = mh_cursos[linha[1]]
    /\ linha[4] = CutoffOf(linha[1])
    /\ linha[5] = RSub(linha[3], linha[4])

\* C25 as stated: the margin is score - cutoff, positive for every admitted
\* and negative for every rejected program.
C25_Original_MarginPositive ==
    Analysed =>
        /\ \A i \in 1..Len(aprovados) :
              MarginIsDifference(aprovados[i]) /\ RPos(aprovados[i][5])
        /\ \A i \in 1..Len(reprovados) :
              MarginIsDifference(reprovados[i]) /\ RLt(reprovados[i][5], Zero)

\* C25: for every program listed as admitted or rejected the margin is
\* score - cutoff; it is positive or zero for every admitted program (a
\* score equal to the cutoff is admitted with margin 0) and negative for
\* every rejected program.
C25_MarginSign ==
    Analysed =>
        /\ \A i \in 1..Len(aprovados) :
              MarginIsDifference(aprovados[i]) /\ RLe(Zero, aprovados[i][5])
        /\ \A i \in 1..Len(reprovados) :
              MarginIsDifference(reprovados[i]) /\ RLt(reprovados[i][5], Zero)

\* one program admitted on the cutoff itself, one rejected
C25_Witness ==
    /\ Analysed
    /\ Len(aprovados) = 1
    /\ aprovados[1][3] = R(600)
    /\ aprovados[1][4] = R(600)
    /\ aprovados[1][5] = Zero
    /\ Len(reprovados) = 1
    /\ reprovados[1][5] = R(-150)
----------------------------------------------------------------------------
(* C26 and C27: the two tallies *)

\* C26: the two implementations of contar_acertos_por_materia give every
\* subject the same tally, for every subject map and every answer set, also
\* when the map holds question numbers below 1.
C26_SameTallies ==
    Scored => acertos_mh = acertos_ac

\* C27: in both scripts each subject's tally is between 0 and the number of
\* distinct question numbers the map assigns to the subject, also when the
\* ingles and espanhol ranges share question numbers and when a correct list
\* repeats a number.
C27_TallyWithinDistinctQuestions ==
    Scored =>
        \A m \in DOMAIN Mapa :
            /\ 0 <= acertos_mh[m] /\ acertos_mh[m] <= Cardinality(QuestionSet(m))
            /\ 0 <= acertos_ac[m] /\ acertos_ac[m] <= Cardinality(QuestionSet(m))
----------------------------------------------------------------------------
(* C28: the day labels of the parser *)

\* the pages that carry a day-2 marker
Day2Pages == {p \in 1..Len(pages_data) : marcador("2", pages_data[p].text)}

\* the first of them, or a page past the last one
FirstDay2Page ==
    IF Day2Pages = {} THEN Len(pages_data) + 1
    ELSE CHOOSE p \in Day2Pages : \A q \in Day2Pages : p <= q

DayOfPage(p) == IF p < FirstDay2Page THEN 1 ELSE 2

\* day{d}_q{NNN} with d in {1, 2} and 1 <= NNN <= 150
WellFormedId(id) ==
    /\ Len(id) = 9
    /\ SubSeq(id, 1, 3) = <<"d", "a", "y">>
    /\ id[4] \in {"1", "2"}
    /\ SubSeq(id, 5, 6) = <<"_", "q">>
    /\ \A k \in 7..9 : id[k] \in Digitos
    /\ valor_decimal(SubSeq(id, 7, 9)) \in 1..150

LabelledByFirstMarker ==
    /\ pc \in {"parse_pages", "parse_done"} =>
          \A i \in 1..Len(question_sequence) :
              question_sequence[i].day = DayOfPage(question_sequence[i].page)
    /\ pc = "parse_done" =>
          \A i \in 1..Len(questions) :
              /\ WellFormedId(questions[i][1])
              /\ Digito(questions[i][1][4]) = DayOfPage(questions[i][2].page)

DayOnlyForward ==
    pc = "parse_pages" =>
        \/ current_day' = current_day
        \/ current_day = 1 /\ current_day' = 2

\* C28: current_day moves from 1 to 2 only; a question found on a page before
\* the first page that carries a day-2 marker is labelled day 1, a question
\* found on that page or a later one day 2, also when a later page carries a
\* day-1 marker; every returned identifier is day{d}_q{NNN} with d in {1, 2}
\* and 1 <= NNN <= 150.
C28_DayMovesForwardOnly == [](LabelledByFirstMarker) /\ [][DayOnlyForward]_vars

\* a day-1 page, a day-2 page, then a page with a day-1 marker whose question
\* 3 is labelled day 2
C28_Witness ==
    /\ pc = "parse_done"
    /\ Len(pages_data) = 3
    /\ pages_data[1].text = Paginas.dia1.text
    /\ pages_data[2].text = Paginas.dia2.text
    /\ pages_data[3].text = Paginas.rodape.text
    /\ marcador("1", pages_data[3].text)
    /\ current_day = 2
    /\ Len(questions) = 4
    /\ questions[1][1] = <<"d", "a", "y", "1", "_", "q", "0", "0", "1">>
    /\ questions[3][1] = <<"d", "a", "y", "2", "_", "q", "0", "0", "1">>
    /\ questions[4][1] = <<"d", "a", "y", "2", "_", "q", "0", "0", "3">>
    /\ questions[4][2].page = 3
----------------------------------------------------------------------------
(* C29: one entry per question, errors included *)

AskDone == pc = "ask_done"

\* the provider gave no answer to question i: its call raised, and for
\* gemini the second call raised as well
Raised(i) ==
    /\ chamadas[i].r1.tipo = "excecao"
    /\ chamadas[i].r2.tipo \in {"excecao", "nao_chamado"}

IsErrorString(a) == Len(a) > 5 /\ SubSeq(a, 1, 5) = <<"E", "r", "r", "o", "r">>

\* question_i for i < 10
ListKey(i) == Append(QuestionUnderscore, caractere(i))

\* C29: answer_multiple_questions returns one entry per question of a dict
\* (under the question's key, in the dict's order) or of a list (under
\* question_1 .. question_n), each with the original question and an answer;
\* every question gets its provider call, whatever happened to the ones
\* before it, and a question whose provider call raised has an error string
\* as its answer.
C29_OneEntryPerQuestion ==
    (AskDone /\ questions_type \in {"dict", "list"}) =>
        /\ Len(answers) = Len(questions)
        /\ Len(chamadas) = Len(questions)
        /\ \A i \in 1..Len(questions) :
              /\ chamadas[i].idx = i
              /\ answers[i][1] =
                    (IF questions_type = "dict" THEN questions[i][1] ELSE ListKey(i))
              /\ answers[i][2].question =
                    (IF questions_type = "dict" THEN questions[i][2] ELSE questions[i])
              /\ Raised(i) => IsErrorString(answers[i][2].answer)

\* a list of two questions: the call for the first raises, the second is
\* answered
C29_Witness ==
    /\ AskDone
    /\ questions_type = "list"
    /\ llm_client.provider = "openai"
    /\ Len(questions) = 2
    /\ questions[1] = questions[2]
    /\ Raised(1)
    /\ answers[1][1] = ListKey(1)
    /\ answers[1][2].answer =
          ErrorGettingAnswer \o <<"t", "i", "m", "e", "o", "u", "t">>
    /\ answers[2][1] = ListKey(2)
    /\ answers[2][2].answer = <<"B">>
----------------------------------------------------------------------------
(* C30: the steps of process_test *)

Ended == pc \in {"pipe_returned", "pipe_raised"}

\* step 1 ran and found no question
NothingExtracted ==
    pc # "pipe_call" /\ output_json_path # None
        /\ extract_questions_from_pdf(pdf) = <<>>

\* step 2 ran and the constructor raised ValueError
ClientRefused ==
    /\ pc \notin {"pipe_call", "pipe_extracted"}
    /\ questions # <<>>
    /\ LLMClient(provider, api_key, model, env).erro = "ValueError"

NothingAskedNothingWritten ==
    /\ pc = "pipe_returned"
    /\ result = Retorna("None")
    /\ chamadas = <<>>
    /\ output = SemOutput
    /\ arquivo = SemArquivo

\* step 5 ran and open or json.dump raised
SaveFailed == output # SemOutput /\ arquivo.escrito # "completo"

StepsInOrder ==
    /\ llm_client # SemCliente => questions # <<>>
    /\ chamadas # <<>> => llm_client # SemCliente
    /\ (output # SemOutput \/ arquivo # SemArquivo) =>
          /\ Len(chamadas) = Len(questions)
          /\ \A i \in 1..Len(chamadas) : chamadas[i].idx = i

Outcomes ==
    /\ NothingExtracted => (NothingAskedNothingWritten /\ llm_client = SemCliente)
    /\ ClientRefused => (NothingAskedNothingWritten /\ llm_client = SemCliente)
    /\ SaveFailed => (pc = "pipe_returned" /\ result = Retorna("None"))
    /\ result.tipo = "dict" =>
          /\ result.valor.metadata.total_questions
                = Len(extract_questions_from_pdf(pdf))
          /\ result.valor.metadata.total_questions = Len(result.valor.answers)
          /\ arquivo = [escrito |-> "completo", conteudo |-> result.valor]

PositionsInOrder ==
    <<pc, pc'>> \in {<<"pipe_call", "pipe_extracted">>,
                     <<"pipe_call", "pipe_returned">>,
                     <<"pipe_call", "pipe_raised">>,
                     <<"pipe_extracted", "pipe_asking">>,
                     <<"pipe_extracted", "pipe_returned">>,
                     <<"pipe_extracted", "pipe_raised">>,
                     <<"pipe_asking", "pipe_asking">>,
                     <<"pipe_asking", "pipe_returned">>}

----------------------------------------------------------------------------
(* C21: what process_test returns *)

\* the keys of the dict process_test returns, lines 48-56
OutputKeys ==
    {<<"m", "e", "t", "a", "d", "a", "t", "a">>,
     <<"a", "n", "s", "w", "e", "r", "s">>}

ExtractedIds ==
    LET q == extract_questions_from_pdf(pdf)
    IN  {q[i][1] : i \in 1..Len(q)}

\* C21: process_test called with the path of a test PDF returns a dict whose
\* keys are the question identifiers, each mapped to its answer.
C21_AnswersByQuestionId ==
    (Ended /\ ExtractedIds # {}) =>
        /\ output_json_path = None => result.tipo = "dict"
        /\ result.tipo = "dict" => OutputKeys = ExtractedIds
====
